---- MODULE Spec2Model ----
(***************************************************************************)
(* The Monkey tree-walking evaluator (package evaluator) over the AST of   *)
(* package ast and the environments of package object.                     *)
(*                                                                         *)
(* An evaluation threads a record st = [heap, na, nb, log]:                *)
(*   heap  the environment frames, addressed by index (an *Environment is  *)
(*         an index into heap, 0 is the nil pointer);                      *)
(*   na    the number of heap objects allocated so far: a FUNCTION, ARRAY  *)
(*         or RETURN_VALUE object carries its address in addr, which is    *)
(*         what Go's == on two interface values holding pointers compares; *)
(*   nb    the number of statement lists entered so far;                   *)
(*   log   what the evaluation did, in order (see the events below).       *)
(* Every operator that evaluates returns [v |-> value, st |-> st].         *)
(*                                                                         *)
(* Integers are TLC integers: the int64 wrap-around of object.Integer is   *)
(* not modelled, and no input below comes near it.                         *)
(***************************************************************************)
EXTENDS Integers, Sequences, FiniteSets, TLC

VARIABLES heap, na, result, halted, nstmts, log,
          op, left, right, out, phase, expr,
          input, program, reparsed

vars == <<heap, na, result, halted, nstmts, log, op, left, right, out, phase, expr,
          input, program, reparsed>>

evalVars == <<heap, na, result, halted, nstmts, log>>

infixVars == <<op, left, right, out, phase, expr>>

parseVars == <<input, program, reparsed>>

(***************************************************************************)
(* package ast: the node types.  A field that holds a Go string is Value   *)
(* or Operator, an int64 is Int, a bool is Bool.                           *)
(***************************************************************************)
Identifier(name) == [node |-> "Identifier", Value |-> name]

IntegerLiteral(n) == [node |-> "IntegerLiteral", Int |-> n]

StringLiteral(s) == [node |-> "StringLiteral", Value |-> s]

Boolean(b) == [node |-> "Boolean", Bool |-> b]

PrefixExpression(o, r) == [node |-> "PrefixExpression", Operator |-> o, Right |-> r]

InfixExpression(l, o, r) ==
    [node |-> "InfixExpression", Left |-> l, Operator |-> o, Right |-> r]

BlockStatement(stmts) == [node |-> "BlockStatement", Statements |-> stmts]

\* A nil *BlockStatement (IfExpression.Alternative of an if without else).
NoBlock == [node |-> "nil"]

IfExpression(c, cons, alt) ==
    [node |-> "IfExpression", Condition |-> c, Consequence |-> cons, Alternative |-> alt]

FunctionLiteral(params, body) ==
    [node |-> "FunctionLiteral", Parameters |-> params, Body |-> body]

CallExpression(f, args) ==
    [node |-> "CallExpression", Function |-> f, Arguments |-> args]

ArrayLiteral(elems) == [node |-> "ArrayLiteral", Elements |-> elems]

IndexExpression(l, i) == [node |-> "IndexExpression", Left |-> l, Index |-> i]

LetStatement(name, v) == [node |-> "LetStatement", Name |-> Identifier(name), Value |-> v]

ReturnStatement(v) == [node |-> "ReturnStatement", ReturnValue |-> v]

ExpressionStatement(e) == [node |-> "ExpressionStatement", Expression |-> e]

(***************************************************************************)
(* package object: the values.  type is what Type() returns.               *)
(***************************************************************************)
NULL == [type |-> "NULL"]

True == [type |-> "BOOLEAN", Bool |-> TRUE]

False == [type |-> "BOOLEAN", Bool |-> FALSE]

\* A nil object.Object: what Eval returns for a let, an empty block or an
\* unknown node.  Calling Type() on it panics.
NIL == [type |-> "nil"]

\* A Go run-time panic (a method call on a nil interface, an integer division
\* by zero): the evaluation is abandoned, nothing is returned.
PANIC == [type |-> "PANIC"]

Integer(n) == [type |-> "INTEGER", Int |-> n]

String(s) == [type |-> "STRING", Str |-> s]

Error(msg) == [type |-> "ERROR", Message |-> msg]

ReturnValue(v, a) == [type |-> "RETURN_VALUE", Value |-> v, addr |-> a]

Function(params, body, env, a) ==
    [type |-> "FUNCTION", Parameters |-> params, Body |-> body, Env |-> env, addr |-> a]

Array(elems, a) == [type |-> "ARRAY", Elements |-> elems, addr |-> a]

Builtin(name) == [type |-> "BUILTIN", Name |-> name]

IsNil(obj) == obj.type = "nil"

IsPanic(obj) == obj.type = "PANIC"

\* Go's == on two object.Object values: the same dynamic type and the same
\* pointer.  Objects without addr are the singletons and, for INTEGER and
\* STRING, fresh objects that are never the same pointer as another operand.
SamePointer(a, b) ==
    IF a.type # b.type THEN FALSE
    ELSE IF a.type \in {"FUNCTION", "ARRAY", "RETURN_VALUE"} THEN a.addr = b.addr
    ELSE IF a.type \in {"INTEGER", "STRING", "ERROR"} THEN FALSE
    ELSE a = b

(***************************************************************************)
(* package object: Environment.  A frame is [store, outer].                *)
(***************************************************************************)
EmptyStore == [n \in {} |-> NIL]

NewEnvironment == [store |-> EmptyStore, outer |-> 0]

RECURSIVE Get(_, _, _)
Get(h, env, name) ==
    IF name \in DOMAIN h[env].store
    THEN [val |-> h[env].store[name], ok |-> TRUE]
    ELSE IF h[env].outer # 0
    THEN Get(h, h[env].outer, name)
    ELSE [val |-> NIL, ok |-> FALSE]

Set(h, env, name, val) ==
    [h EXCEPT ![env].store =
        [n \in (DOMAIN @) \cup {name} |-> IF n = name THEN val ELSE @[n]]]

\* Delete removing the name from the frame and from every frame outer to it.
RECURSIVE DeleteFromChain(_, _, _)
DeleteFromChain(h, env, name) ==
    LET h1 == [h EXCEPT ![env].store = [n \in (DOMAIN @) \ {name} |-> @[n]]]
    IN IF h[env].outer = 0 THEN h1 ELSE DeleteFromChain(h1, h[env].outer, name)

Delete(h, env, name) ==
    [h EXCEPT ![env].store = [n \in (DOMAIN @) \ {name} |-> @[n]]]

\* The names env.Get finds from frame env.
RECURSIVE VisibleNames(_, _)
VisibleNames(h, env) ==
    DOMAIN h[env].store
        \cup (IF h[env].outer = 0 THEN {} ELSE VisibleNames(h, h[env].outer))

\* What env.Get yields from frame env, for every name it finds.
Visible(h, env) == [name \in VisibleNames(h, env) |-> Get(h, env, name).val]

\* Returns the heap with the new frame and the frame's index.
NewEnclosedEnvironment(h, outer) ==
    [heap |-> Append(h, [store |-> EmptyStore, outer |-> outer]), env |-> Len(h) + 1]

\* A new frame holding a copy of env's own bindings and env's outer frame.
CloneEnvironment(h, env) ==
    [heap |-> Append(h, [store |-> h[env].store, outer |-> h[env].outer]),
     env |-> Len(h) + 1]

(***************************************************************************)
(* package evaluator: the operators that do not evaluate sub-nodes.        *)
(***************************************************************************)
isError(obj) == IF ~IsNil(obj) THEN obj.type = "ERROR" ELSE FALSE

\* evalBoolean allocating a new object.Boolean instead of returning TRUE or FALSE.
evalBooleanFresh(b) == [type |-> "BOOLEAN", Bool |-> b, addr |-> 0]

evalBoolean(b) == IF b THEN True ELSE False

\* isTruthy taking the INTEGER 0 for false as well.
isTruthyZeroIsFalse(obj) ==
    IF obj = NULL \/ obj = False \/ obj = [type |-> "INTEGER", Int |-> 0] THEN FALSE ELSE TRUE

isTruthy(obj) == IF obj = NULL \/ obj = False THEN FALSE ELSE TRUE

unwrapReturnValue(obj) == IF obj.type = "RETURN_VALUE" THEN obj.Value ELSE obj

\* evalBangOperatorExpression without the NULL case.
evalBangOperatorExpressionNoNull(r) ==
    CASE r = True -> False
      [] r = False -> True
      [] OTHER -> False

evalBangOperatorExpression(r) ==
    CASE r = True -> False
      [] r = False -> True
      [] r = NULL -> True
      [] OTHER -> False

evalMinusPrefixOperatorExpression(r) ==
    IF IsNil(r) THEN PANIC
    ELSE IF r.type # "INTEGER" THEN Error("unknown operator: -" \o r.type)
    ELSE Integer(-r.Int)

evalPrefixExpression(o, r) ==
    CASE o = "!" -> evalBangOperatorExpression(r)
      [] o = "-" -> evalMinusPrefixOperatorExpression(r)
      [] OTHER -> IF IsNil(r) THEN PANIC ELSE Error("unknown operator: " \o o \o r.type)

\* Go's / on int64: the quotient truncated toward zero.
Quotient(a, b) ==
    LET q == (IF a < 0 THEN -a ELSE a) \div (IF b < 0 THEN -b ELSE b)
    IN IF (a < 0) # (b < 0) THEN -q ELSE q

evalIntegerInfixExpression(o, l, r) ==
    CASE o = "+" -> Integer(l.Int + r.Int)
      [] o = "-" -> Integer(l.Int - r.Int)
      [] o = "*" -> Integer(l.Int * r.Int)
      [] o = "/" -> IF r.Int = 0 THEN PANIC ELSE Integer(Quotient(l.Int, r.Int))
      [] o = "<" -> evalBoolean(l.Int < r.Int)
      [] o = ">" -> evalBoolean(l.Int > r.Int)
      [] o = "==" -> evalBoolean(l.Int = r.Int)
      [] o = "!=" -> evalBoolean(l.Int # r.Int)
      [] OTHER -> Error("unknown operator: " \o l.type \o " " \o o \o " " \o r.type)

evalStringInfixExpression(o, l, r) ==
    CASE o = "+" -> String(l.Str \o r.Str)
      [] OTHER -> Error("unknown operator: " \o l.type \o " " \o o \o " " \o r.type)

\* evalInfixExpression with the == and != cases ahead of the STRING case.
evalInfixExpressionEqualityFirst(o, l, r) ==
    IF IsNil(l) THEN PANIC
    ELSE IF l.type = "INTEGER" /\ IsNil(r) THEN PANIC
    ELSE IF l.type = "INTEGER" /\ r.type = "INTEGER"
    THEN evalIntegerInfixExpression(o, l, r)
    ELSE IF o = "==" THEN evalBoolean(SamePointer(l, r))
    ELSE IF o = "!=" THEN evalBoolean(~SamePointer(l, r))
    ELSE IF IsNil(r) THEN PANIC
    ELSE IF l.type = "STRING" /\ r.type = "STRING"
    THEN evalStringInfixExpression(o, l, r)
    ELSE IF l.type # r.type
    THEN Error("type mismatch: " \o l.type \o " " \o o \o " " \o r.type)
    ELSE Error("unknown operator: " \o l.type \o " " \o o \o " " \o r.type)

\* The switch evaluates its cases in order; l.Type() and r.Type() panic on nil.
evalInfixExpression(o, l, r) ==
    IF IsNil(l) THEN PANIC
    ELSE IF l.type = "INTEGER" /\ IsNil(r) THEN PANIC
    ELSE IF l.type = "INTEGER" /\ r.type = "INTEGER"
    THEN evalIntegerInfixExpression(o, l, r)
    ELSE IF l.type = "STRING" /\ IsNil(r) THEN PANIC
    ELSE IF l.type = "STRING" /\ r.type = "STRING"
    THEN evalStringInfixExpression(o, l, r)
    ELSE IF o = "==" THEN evalBoolean(SamePointer(l, r))
    ELSE IF o = "!=" THEN evalBoolean(~SamePointer(l, r))
    ELSE IF IsNil(r) THEN PANIC
    ELSE IF l.type # r.type
    THEN Error("type mismatch: " \o l.type \o " " \o o \o " " \o r.type)
    ELSE Error("unknown operator: " \o l.type \o " " \o o \o " " \o r.type)

\* evalArrayIndexExpression taking the last position for out of bounds.
evalArrayIndexExpressionShort(array, index) ==
    LET idx == index.Int
        max == Len(array.Elements) - 1
    IN IF idx < 0 \/ max <= idx THEN NULL ELSE array.Elements[idx + 1]

evalArrayIndexExpression(array, index) ==
    LET idx == index.Int
        max == Len(array.Elements) - 1
    IN IF idx < 0 \/ max < idx THEN NULL ELSE array.Elements[idx + 1]

evalIndexExpression(l, index) ==
    IF IsNil(l) THEN PANIC
    ELSE IF l.type = "ARRAY" /\ IsNil(index) THEN PANIC
    ELSE IF l.type = "ARRAY" /\ index.type = "INTEGER"
    THEN evalArrayIndexExpression(l, index)
    ELSE Error("index operator not supported: " \o l.type)

(***************************************************************************)
(* The builtins table.                                                     *)
(***************************************************************************)
builtins == {"len", "first", "last", "rest", "push", "puts"}

wrongArguments(n, want) ==
    Error("wrong number of arguments. got=" \o ToString(n) \o ", want=" \o ToString(want))

notSupported(name, arg) ==
    IF IsNil(arg) THEN PANIC
    ELSE Error("argument to \"" \o name \o "\" not supported, got " \o arg.type)

\* f.Fn(args...) of the BUILTIN called name; a is the address a new ARRAY gets.
builtinFn(name, args, a) ==
    LET want == IF name = "push" THEN 2 ELSE 1
        arg == args[1]
        isArray == ~IsNil(arg) /\ arg.type = "ARRAY"
        n == IF isArray THEN Len(arg.Elements) ELSE 0
    IN CASE name = "puts" -> NULL
         [] name # "puts" /\ Len(args) # want -> wrongArguments(Len(args), want)
         [] OTHER ->
            CASE name = "len" /\ ~IsNil(arg) /\ arg.type = "STRING" -> Integer(Len(arg.Str))
              [] name = "len" /\ isArray -> Integer(n)
              [] name = "first" /\ isArray -> IF n > 0 THEN arg.Elements[1] ELSE NULL
              [] name = "last" /\ isArray -> IF n > 0 THEN arg.Elements[n] ELSE NULL
              [] name = "rest" /\ isArray ->
                    IF n > 0 THEN Array(SubSeq(arg.Elements, 2, n), a) ELSE NULL
              [] name = "push" /\ isArray -> Array(Append(arg.Elements, args[2]), a)
              [] OTHER -> notSupported(name, arg)

(***************************************************************************)
(* package evaluator: Eval.                                                *)
(*                                                                         *)
(* The events of st.log.  call is the frame the node is evaluated in: the  *)
(* program's frame, or the frame a function call created, so it names the  *)
(* call; act names one execution of a statement list.                      *)
(*   begin    statement idx of the n statements of list act is evaluated   *)
(*   end      it evaluated to val                                          *)
(*   return   a return statement wrapped the operand value val             *)
(*   let      a let statement bound name to val                            *)
(*   let      name was bound to val in frame call; fresh says that no      *)
(*            frame in sight of call bound name before                     *)
(*   ident    the identifier name evaluated to val                         *)
(*   branch   an if-expression with condition value cond took a branch     *)
(*   call     a call expression evaluated in frame call applied fn; before *)
(*            and after are what the frame saw before and after            *)
(*   apply    applyFunction bound args in the new frame call, whose        *)
(*            bindings were frame when the body started                    *)
(*   applied  the body of call evaluated to body, applyFunction gave val   *)
(***************************************************************************)
Val(v, st) == [v |-> v, st |-> st]

Emit(st, e) == [st EXCEPT !.log = Append(@, e)]

Begin(env, act, i, n) == [k |-> "begin", call |-> env, act |-> act, idx |-> i, n |-> n]

End(env, act, i, n, v) ==
    [k |-> "end", call |-> env, act |-> act, idx |-> i, n |-> n, val |-> v]

evalIdentifier(node, env, st) ==
    LET got == Get(st.heap, env, node.Value)
        v == IF got.ok THEN got.val
             ELSE IF node.Value \in builtins THEN Builtin(node.Value)
             ELSE Error("identifier not found: " \o node.Value)
    IN Val(v, Emit(st, [k |-> "ident", call |-> env, name |-> node.Value, val |-> v]))

\* The loop of extendFunctionEnv from the i-th parameter on (i counts from 1).
RECURSIVE bindParameters(_, _, _, _, _)
\* bindParameters leaving the function's captured frame as it is.
bindParametersWithoutDelete(fn, args, i, env, h) ==
    IF i > Len(fn.Parameters) THEN h
    ELSE LET param == fn.Parameters[i]
             maxArgsIdx == Len(args) - 1
             h2 == IF i - 1 <= maxArgsIdx THEN Set(h, env, param.Value, args[i]) ELSE h
         IN bindParameters(fn, args, i + 1, env, h2)

\* bindParameters binding in the function's captured frame, not in the new one.
bindParametersInCaptured(fn, args, i, env, h) ==
    IF i > Len(fn.Parameters) THEN h
    ELSE LET param == fn.Parameters[i]
             maxArgsIdx == Len(args) - 1
             h1 == Delete(h, fn.Env, param.Value)
             h2 == IF i - 1 <= maxArgsIdx THEN Set(h1, fn.Env, param.Value, args[i]) ELSE h1
         IN bindParameters(fn, args, i + 1, env, h2)

\* bindParameters with the bound test off by one: the last argument is not bound.
bindParametersOffByOne(fn, args, i, env, h) ==
    IF i > Len(fn.Parameters) THEN h
    ELSE LET param == fn.Parameters[i]
             maxArgsIdx == Len(args) - 1
             h1 == Delete(h, fn.Env, param.Value)
             h2 == IF i - 1 < maxArgsIdx THEN Set(h1, env, param.Value, args[i]) ELSE h1
         IN bindParameters(fn, args, i + 1, env, h2)

bindParameters(fn, args, i, env, h) ==
    IF i > Len(fn.Parameters) THEN h
    ELSE LET param == fn.Parameters[i]
             maxArgsIdx == Len(args) - 1
             h1 == Delete(h, fn.Env, param.Value)
             h2 == IF i - 1 <= maxArgsIdx THEN Set(h1, env, param.Value, args[i]) ELSE h1
         IN bindParameters(fn, args, i + 1, env, h2)

\* Returns the heap with the new frame and the frame's index.
extendFunctionEnv(fn, args, h) ==
    LET e == NewEnclosedEnvironment(h, fn.Env)
    IN [heap |-> bindParameters(fn, args, 1, e.env, e.heap), env |-> e.env]

RECURSIVE Eval(_, _, _)
RECURSIVE evalStatements(_, _, _, _, _, _)
RECURSIVE evalBlockStatement(_, _, _)
RECURSIVE evalIfExpression(_, _, _)
RECURSIVE evalExpressionsFrom(_, _, _, _, _)
RECURSIVE evalExpressions(_, _, _)
RECURSIVE applyFunction(_, _, _)
RECURSIVE EvalPrefix(_, _, _)
RECURSIVE EvalInfix(_, _, _)
RECURSIVE EvalReturn(_, _, _)
RECURSIVE EvalLet(_, _, _)
RECURSIVE EvalCall(_, _, _)
RECURSIVE EvalArray(_, _, _)
RECURSIVE EvalIndex(_, _, _)

\* case *ast.PrefixExpression
EvalPrefix(node, env, st) ==
    LET r == Eval(node.Right, env, st)
    IN IF IsPanic(r.v) \/ isError(r.v) THEN r
       ELSE Val(evalPrefixExpression(node.Operator, r.v), r.st)

\* case *ast.InfixExpression
EvalInfix(node, env, st) ==
    LET l == Eval(node.Left, env, st)
    IN IF IsPanic(l.v) \/ isError(l.v) THEN l
       ELSE LET r == Eval(node.Right, env, l.st)
            IN IF IsPanic(r.v) \/ isError(r.v) THEN r
               ELSE Val(evalInfixExpression(node.Operator, l.v, r.v), r.st)

\* case *ast.ReturnStatement
EvalReturn(node, env, st) ==
    LET r == Eval(node.ReturnValue, env, st)
        a == r.st.na + 1
    IN IF IsPanic(r.v) \/ isError(r.v) THEN r
       ELSE Val(ReturnValue(r.v, a),
                Emit([r.st EXCEPT !.na = a], [k |-> "return", call |-> env, val |-> r.v]))

\* EvalLet binding the name before it looks at the value.
EvalLetBindsErrors(node, env, st) ==
    LET r == Eval(node.Value, env, st)
        bound == [r.st EXCEPT !.heap = Set(@, env, node.Name.Value, r.v)]
    IN IF IsPanic(r.v) THEN r
       ELSE IF isError(r.v) THEN Val(r.v, bound)
       ELSE Val(NIL, Emit(bound, [k |-> "let", call |-> env, name |-> node.Name.Value,
                                  val |-> r.v,
                                  fresh |-> ~Get(r.st.heap, env, node.Name.Value).ok]))

\* case *ast.LetStatement: falls out of the switch, Eval returns nil.
EvalLet(node, env, st) ==
    LET r == Eval(node.Value, env, st)
    IN IF IsPanic(r.v) \/ isError(r.v) THEN r
       ELSE Val(NIL,
                Emit([r.st EXCEPT !.heap = Set(@, env, node.Name.Value, r.v)],
                     [k |-> "let", call |-> env, name |-> node.Name.Value, val |-> r.v,
                      fresh |-> ~Get(r.st.heap, env, node.Name.Value).ok]))

\* EvalFunctionLiteral keeping a reference to env instead of a clone of it.
EvalFunctionLiteralByReference(node, env, st) ==
    LET a == st.na + 1
    IN Val(Function(node.Parameters, node.Body, env, a), [st EXCEPT !.na = a])

\* case *ast.FunctionLiteral
EvalFunctionLiteral(node, env, st) ==
    LET c == CloneEnvironment(st.heap, env)
        a == st.na + 1
    IN Val(Function(node.Parameters, node.Body, c.env, a),
           [st EXCEPT !.heap = c.heap, !.na = a])

\* case *ast.CallExpression
EvalCall(node, env, st) ==
    LET fn == Eval(node.Function, env, st)
    IN IF IsPanic(fn.v) \/ isError(fn.v) THEN fn
       ELSE LET args == evalExpressions(node.Arguments, env, fn.st)
            IN IF Len(args.vs) = 1 /\ (IsPanic(args.vs[1]) \/ isError(args.vs[1]))
               THEN Val(args.vs[1], args.st)
               ELSE \* applied is bound through a set of one element, so that
                    \* applyFunction is evaluated once.
                    CHOOSE called \in
                        {Val(applied.v,
                             Emit(applied.st,
                                  [k |-> "call", call |-> env, fn |-> fn.v,
                                   before |-> Visible(args.st.heap, env),
                                   after |-> Visible(applied.st.heap, env)])) :
                           applied \in {applyFunction(fn.v, args.vs, args.st)}} : TRUE

\* case *ast.ArrayLiteral
EvalArray(node, env, st) ==
    LET elements == evalExpressions(node.Elements, env, st)
        a == elements.st.na + 1
    IN IF Len(elements.vs) = 1 /\ (IsPanic(elements.vs[1]) \/ isError(elements.vs[1]))
       THEN Val(elements.vs[1], elements.st)
       ELSE Val(Array(elements.vs, a), [elements.st EXCEPT !.na = a])

\* case *ast.IndexExpression
EvalIndex(node, env, st) ==
    LET l == Eval(node.Left, env, st)
    IN IF IsPanic(l.v) \/ isError(l.v) THEN l
       ELSE LET index == Eval(node.Index, env, l.st)
            IN IF IsPanic(index.v) \/ isError(index.v) THEN index
               ELSE Val(evalIndexExpression(l.v, index.v), index.st)

Eval(node, env, st) ==
    CASE node.node = "ExpressionStatement" -> Eval(node.Expression, env, st)
      [] node.node = "IntegerLiteral" -> Val(Integer(node.Int), st)
      [] node.node = "Boolean" -> Val(evalBoolean(node.Bool), st)
      [] node.node = "PrefixExpression" -> EvalPrefix(node, env, st)
      [] node.node = "InfixExpression" -> EvalInfix(node, env, st)
      [] node.node = "BlockStatement" -> evalBlockStatement(node, env, st)
      [] node.node = "IfExpression" -> evalIfExpression(node, env, st)
      [] node.node = "ReturnStatement" -> EvalReturn(node, env, st)
      [] node.node = "LetStatement" -> EvalLet(node, env, st)
      [] node.node = "Identifier" -> evalIdentifier(node, env, st)
      [] node.node = "FunctionLiteral" -> EvalFunctionLiteral(node, env, st)
      [] node.node = "CallExpression" -> EvalCall(node, env, st)
      [] node.node = "StringLiteral" -> Val(String(node.Value), st)
      [] node.node = "ArrayLiteral" -> EvalArray(node, env, st)
      [] node.node = "IndexExpression" -> EvalIndex(node, env, st)
      [] OTHER -> Val(NIL, st)

applyFunction(fn, args, st) ==
    IF IsNil(fn) THEN Val(PANIC, st)
    ELSE IF fn.type = "FUNCTION"
    THEN LET ext == extendFunctionEnv(fn, args, st.heap)
             st1 == Emit([st EXCEPT !.heap = ext.heap],
                         [k |-> "apply", call |-> ext.env, fn |-> fn, args |-> args,
                          frame |-> ext.heap[ext.env].store])
             evaluated == Eval(fn.Body, ext.env, st1)
             v == unwrapReturnValue(evaluated.v)
         IN Val(v, Emit(evaluated.st,
                        [k |-> "applied", call |-> ext.env, body |-> evaluated.v, val |-> v]))
    ELSE IF fn.type = "BUILTIN"
    THEN LET a == st.na + 1
         IN Val(builtinFn(fn.Name, args, a), [st EXCEPT !.na = a])
    ELSE Val(Error("not a function: " \o fn.type), st)

\* The loop of evalExpressions from the i-th expression on, res the values so far.
\* evalExpressionsFrom going on to evaluate the expressions after an ERROR.
evalExpressionsFromToTheEnd(exps, i, res, env, st) ==
    IF i > Len(exps) THEN [vs |-> res, st |-> st]
    ELSE LET evaluated == Eval(exps[i], env, st)
             rest == evalExpressionsFrom(exps, i + 1, res, env, evaluated.st)
         IN IF IsPanic(evaluated.v) THEN [vs |-> <<evaluated.v>>, st |-> evaluated.st]
            ELSE IF isError(evaluated.v) THEN [vs |-> <<evaluated.v>>, st |-> rest.st]
            ELSE evalExpressionsFrom(exps, i + 1, Append(res, evaluated.v), env, evaluated.st)

evalExpressionsFrom(exps, i, res, env, st) ==
    IF i > Len(exps) THEN [vs |-> res, st |-> st]
    ELSE LET evaluated == Eval(exps[i], env, st)
         IN IF IsPanic(evaluated.v) \/ isError(evaluated.v)
            THEN [vs |-> <<evaluated.v>>, st |-> evaluated.st]
            ELSE evalExpressionsFrom(exps, i + 1, Append(res, evaluated.v), env, evaluated.st)

evalExpressions(exps, env, st) == evalExpressionsFrom(exps, 1, <<>>, env, st)

\* evalStatements without the ERROR_OBJ test: only a RETURN_VALUE ends the loop.
evalStatementsReturnOnly(stmts, i, res, env, act, st) ==
    IF i > Len(stmts) THEN Val(res, st)
    ELSE LET r == Eval(stmts[i], env, Emit(st, Begin(env, act, i, Len(stmts))))
             st2 == Emit(r.st, End(env, act, i, Len(stmts), r.v))
         IN IF IsPanic(r.v) THEN r
            ELSE IF ~IsNil(r.v) /\ r.v.type = "RETURN_VALUE"
            THEN Val(r.v, st2)
            ELSE evalStatements(stmts, i + 1, r.v, env, act, st2)

\* The loop of evalBlockStatement from the i-th statement on, res the result so far.
evalStatements(stmts, i, res, env, act, st) ==
    IF i > Len(stmts) THEN Val(res, st)
    ELSE LET r == Eval(stmts[i], env, Emit(st, Begin(env, act, i, Len(stmts))))
             st2 == Emit(r.st, End(env, act, i, Len(stmts), r.v))
         IN IF IsPanic(r.v) THEN r
            ELSE IF ~IsNil(r.v) /\ (r.v.type = "RETURN_VALUE" \/ r.v.type = "ERROR")
            THEN Val(r.v, st2)
            ELSE evalStatements(stmts, i + 1, r.v, env, act, st2)

\* evalBlockStatement evaluating the statements in a frame of the block's own.
evalBlockStatementInNewFrame(block, env, st) ==
    LET act == st.nb + 1
        e == NewEnclosedEnvironment(st.heap, env)
    IN evalStatements(block.Statements, 1, NIL, e.env, act,
                      [st EXCEPT !.nb = act, !.heap = e.heap])

evalBlockStatement(block, env, st) ==
    LET act == st.nb + 1
    IN evalStatements(block.Statements, 1, NIL, env, act, [st EXCEPT !.nb = act])

evalIfExpression(exp, env, st) ==
    LET cond == Eval(exp.Condition, env, st)
        taken == IF isTruthy(cond.v) THEN "consequence"
                 ELSE IF exp.Alternative.node # "nil" THEN "alternative"
                 ELSE "none"
        st1 == Emit(cond.st, [k |-> "branch", call |-> env, cond |-> cond.v, taken |-> taken])
    IN IF IsPanic(cond.v) \/ isError(cond.v) THEN cond
       ELSE IF isTruthy(cond.v) THEN Eval(exp.Consequence, env, st1)
       ELSE IF exp.Alternative.node # "nil" THEN Eval(exp.Alternative, env, st1)
       ELSE Val(NULL, st1)

(***************************************************************************)
(* The programs.  A program is evaluated one statement at a time, in the   *)
(* order evalProgram's loop takes them; each statement is any of the       *)
(* statements below, so the runs of the model are the evaluations of every *)
(* program of at most MaxStmts of them.                                    *)
(***************************************************************************)
MaxStmts == 3

Id(name) == Identifier(name)

Num(n) == IntegerLiteral(n)

Block(stmts) == BlockStatement(stmts)

ES(e) == ExpressionStatement(e)

Fn(names, stmts) ==
    FunctionLiteral([i \in 1..Len(names) |-> Identifier(names[i])], Block(stmts))

Call(f, args) == CallExpression(f, args)

If(c, stmts) == IfExpression(c, Block(stmts), NoBlock)

Statements == <<
    \* let x = 5;   let x = 10;
    LetStatement("x", Num(5)),
    LetStatement("x", Num(10)),
    \* let f = fn() { x };   f();   f(3)
    LetStatement("f", Fn(<<>>, <<ES(Id("x"))>>)),
    ES(Call(Id("f"), <<>>)),
    ES(Call(Id("f"), <<Num(3)>>)),
    \* let g = fn(x) { fn(y) { x + y } };   let h = g(2);   let f = g(3);   h(3)
    LetStatement("g", Fn(<<"x">>, <<ES(Fn(<<"y">>, <<ES(InfixExpression(Id("x"), "+", Id("y")))>>))>>)),
    LetStatement("h", Call(Id("g"), <<Num(2)>>)),
    LetStatement("f", Call(Id("g"), <<Num(3)>>)),
    ES(Call(Id("h"), <<Num(3)>>)),
    \* return x;   return if (true) { return 1 };
    ReturnStatement(Id("x")),
    ReturnStatement(If(Boolean(TRUE), <<ReturnStatement(Num(1))>>)),
    \* if (x) { if (true) { return 10 } return 1 }
    ES(If(Id("x"), <<ES(If(Boolean(TRUE), <<ReturnStatement(Num(10))>>)), ReturnStatement(Num(1))>>)),
    \* fn() { return if (true) { return 1 } }()
    ES(Call(Fn(<<>>, <<ReturnStatement(If(Boolean(TRUE), <<ReturnStatement(Num(1))>>))>>), <<>>)),
    \* fn() { if (true) { if (true) { return 10 } return 1 } return 2 }()
    ES(Call(Fn(<<>>, <<ES(If(Boolean(TRUE), <<ES(If(Boolean(TRUE), <<ReturnStatement(Num(10))>>)),
                                               ReturnStatement(Num(1))>>)),
                       ReturnStatement(Num(2))>>), <<>>)),
    \* fn() { let y = if (true) { return 1 }; 7 }()
    ES(Call(Fn(<<>>, <<LetStatement("y", If(Boolean(TRUE), <<ReturnStatement(Num(1))>>)), ES(Num(7))>>), <<>>)),
    \* u
    ES(Id("u")),
    \* if (true) { if (true) { u; let x = 3 } let x = 4 }
    ES(If(Boolean(TRUE), <<ES(If(Boolean(TRUE), <<ES(Id("u")), LetStatement("x", Num(3))>>)),
                           LetStatement("x", Num(4))>>)),
    \* fn() { if (true) { 5 + true; 1 } 2 }();
    ES(Call(Fn(<<>>, <<ES(If(Boolean(TRUE), <<ES(InfixExpression(Num(5), "+", Boolean(TRUE))), ES(Num(1))>>)),
                       ES(Num(2))>>), <<>>)),
    \* fn(x) { x }()
    ES(Call(Fn(<<"x">>, <<ES(Id("x"))>>), <<>>)),
    \* fn() { fn(x) { x } }()()
    ES(Call(Call(Fn(<<>>, <<ES(Fn(<<"x">>, <<ES(Id("x"))>>))>>), <<>>), <<>>)),
    \* fn(x, y) { x - y }(7, 2);   fn(x, y) { y }(1);   fn(x) { x }(1, 2);   fn(x, x) { x }(1, 2)
    ES(Call(Fn(<<"x", "y">>, <<ES(InfixExpression(Id("x"), "-", Id("y")))>>), <<Num(7), Num(2)>>)),
    ES(Call(Fn(<<"x", "y">>, <<ES(Id("y"))>>), <<Num(1)>>)),
    ES(Call(Fn(<<"x">>, <<ES(Id("x"))>>), <<Num(1), Num(2)>>)),
    ES(Call(Fn(<<"x", "x">>, <<ES(Id("x"))>>), <<Num(1), Num(2)>>))
  >>

(***************************************************************************)
(* evalProgram.                                                            *)
(***************************************************************************)
\* The frame the program is evaluated in: the first frame of the heap.
GlobalEnv == 1

\* One turn of evalProgram's loop on stmt, the i-th statement of the program.
evalProgramStep(stmt, i, st) ==
    LET r == Eval(stmt, GlobalEnv, Emit(st, Begin(GlobalEnv, 0, i, i)))
        st2 == IF IsPanic(r.v) THEN r.st ELSE Emit(r.st, End(GlobalEnv, 0, i, i, r.v))
    IN IF r.v.type = "RETURN_VALUE" THEN [result |-> r.v.Value, halted |-> TRUE, st |-> st2]
       ELSE IF r.v.type = "ERROR" THEN [result |-> r.v, halted |-> TRUE, st |-> st2]
       ELSE [result |-> r.v, halted |-> IsPanic(r.v), st |-> st2]

Init ==
    /\ heap = <<NewEnvironment>>
    /\ na = 0
    /\ result = NIL
    /\ halted = FALSE
    /\ nstmts = 0
    /\ log = <<>>
    /\ op = "+"
    /\ left = NIL
    /\ right = NIL
    /\ out = NIL
    /\ phase = "program"
    /\ expr = NoBlock
    /\ input = <<>>
    /\ program = NoBlock
    /\ reparsed = NoBlock

evalProgram(stmt) ==
    /\ phase = "program"
    /\ ~halted
    /\ nstmts < MaxStmts
    /\ LET s == evalProgramStep(stmt, nstmts + 1,
                                [heap |-> heap, na |-> na, nb |-> 0, log |-> <<>>])
       IN /\ heap' = s.st.heap
          /\ na' = s.st.na
          /\ result' = s.result
          /\ halted' = s.halted
          /\ log' = s.st.log
    /\ nstmts' = nstmts + 1
    /\ UNCHANGED infixVars
    /\ UNCHANGED parseVars

Next == \E i \in 1..Len(Statements) : evalProgram(Statements[i])

Spec == Init /\ [][Next]_vars

(***************************************************************************)
(* Reading the log of the statement evaluated last.                        *)
(***************************************************************************)
Events == DOMAIN log

IsEvent(p, kind) == log[p].k = kind

\* The statement of event p evaluated to an ERROR value.
EndsInError(p) == IsEvent(p, "end") /\ log[p].val.type = "ERROR"

(***************************************************************************)
(* C1: the value evalProgram returns is never a RETURN_VALUE, whatever the *)
(* operand of the return statement was.                                    *)
(* Fails: return if (true) { return 1 }; wraps the RETURN_VALUE the if     *)
(* yields in a second RETURN_VALUE, and evalProgram unwraps one level.     *)
(***************************************************************************)
C1_ProgramResultNeverReturnValue == result.type # "RETURN_VALUE"

(***************************************************************************)
(* C2: the value applyFunction gives for a FUNCTION is never a             *)
(* RETURN_VALUE, so a statement of the program in which no return of the   *)
(* program itself executed never ends the program as a return does.        *)
(* Fails: fn() { return if (true) { return 1 } }() gives RETURN_VALUE(1),  *)
(* which evalProgram takes for a return of the program.                    *)
(***************************************************************************)
C2_AppliedNeverReturnValue ==
    /\ \A p \in Events : IsEvent(p, "applied") => log[p].val.type # "RETURN_VALUE"
    /\ \A p \in Events :
          (/\ IsEvent(p, "end")
           /\ log[p].act = 0
           /\ \A q \in Events : IsEvent(q, "return") => log[q].call # GlobalEnv)
          => log[p].val.type # "RETURN_VALUE"

(***************************************************************************)
(* C3: once a return statement has executed in a program or function body  *)
(* (at any depth of if-blocks), no further statement of that program or    *)
(* body is evaluated, and the call yields the return's operand.            *)
(* Fails: fn() { let y = if (true) { return 1 }; 7 }() binds y to the      *)
(* RETURN_VALUE, goes on to evaluate 7 and yields 7.                       *)
(***************************************************************************)
FirstReturnOf(p) ==
    /\ IsEvent(p, "return")
    /\ \A q \in Events : (q < p /\ IsEvent(q, "return")) => log[q].call # log[p].call

C3_ReturnStopsEveryEnclosingBlock ==
    /\ \A p, q \in Events :
          (p < q /\ IsEvent(p, "return") /\ IsEvent(q, "begin"))
          => log[q].call # log[p].call
    /\ \A p, q \in Events :
          (FirstReturnOf(p) /\ IsEvent(q, "applied") /\ log[q].call = log[p].call)
          => log[q].val = log[p].val
    /\ \A p \in Events :
          (FirstReturnOf(p) /\ log[p].call = GlobalEnv) => result = log[p].val

(***************************************************************************)
(* C4: once a statement has evaluated to an ERROR value, no statement is   *)
(* begun and no let binds anything afterwards; every enclosing statement   *)
(* and call yields that same ERROR value, and it is what evalProgram       *)
(* returns, at once.                                                       *)
(***************************************************************************)
C4_ErrorStopsEvaluation ==
    /\ \A p, q \in Events :
          (p < q /\ EndsInError(p))
          => /\ ~IsEvent(q, "begin")
             /\ ~IsEvent(q, "let")
             /\ (IsEvent(q, "end") \/ IsEvent(q, "applied")) => log[q].val = log[p].val
    /\ \A p \in Events : EndsInError(p) => (result = log[p].val /\ halted)
    /\ result.type = "ERROR" => halted

\* An ERROR value came from a statement of a block inside a function body
\* that has statements after it, and the program's result is that value.
C4_Witness ==
    \E p \in Events :
        /\ EndsInError(p)
        /\ log[p].act # 0
        /\ log[p].call # GlobalEnv
        /\ log[p].idx < log[p].n
        /\ result = log[p].val

(***************************************************************************)
(* Calling a function value in a given heap, and results up to addresses.  *)
(***************************************************************************)
\* v without the addresses and frame indices in it.
RECURSIVE Shape(_)
Shape(v) ==
    CASE v.type = "FUNCTION" ->
            [type |-> "FUNCTION", Parameters |-> v.Parameters, Body |-> v.Body]
      [] v.type = "ARRAY" ->
            [type |-> "ARRAY", Elements |-> [i \in DOMAIN v.Elements |-> Shape(v.Elements[i])]]
      [] v.type = "RETURN_VALUE" -> [type |-> "RETURN_VALUE", Value |-> Shape(v.Value)]
      [] OTHER -> v

Fresh(h, n) == [heap |-> h, na |-> n, nb |-> 0, log |-> <<>>]

\* What calling f with args yields in heap h.
CallShape(h, n, f, args) == Shape(applyFunction(f, args, Fresh(h, n)).v)

Globals(h) == DOMAIN h[GlobalEnv].store

IsFunction(v) == v.type = "FUNCTION"

ArgLists == {<<>>, <<Integer(3)>>, <<Integer(3), Integer(4)>>}

ArgValues == {Integer(2), Integer(3)}

(***************************************************************************)
(* C5: a let executed in the program's scope, the scope a function bound   *)
(* there was defined in, does not change what a call of the function       *)
(* yields: for every function value defined in the program's scope and     *)
(* bound there before and after the statement, and all arguments, the call *)
(* yields the same before and after.                                       *)
(***************************************************************************)
DefinedInGlobalScope(h, f) == IsFunction(f) /\ h[f.Env].outer = 0

C5_LaterLetDoesNotChangeClosure ==
    [][\A name \in Globals(heap) \cap Globals(heap') :
          LET f == heap[GlobalEnv].store[name]
          IN (/\ DefinedInGlobalScope(heap, f)
              /\ heap'[GlobalEnv].store[name] = f
              /\ heap'[GlobalEnv].store # heap[GlobalEnv].store)
             => \A args \in ArgLists :
                   CallShape(heap', na', f, args) = CallShape(heap, na, f, args)]_vars

\* f = fn() { x } was defined when x was 5, x is 10 now, and f() yields 5.
C5_Witness ==
    /\ {"f", "x"} \subseteq Globals(heap)
    /\ LET f == heap[GlobalEnv].store["f"]
       IN /\ DefinedInGlobalScope(heap, f)
          /\ "x" \in DOMAIN heap[f.Env].store
          /\ heap[f.Env].store["x"] = Integer(5)
          /\ heap[GlobalEnv].store["x"] = Integer(10)
          /\ CallShape(heap, na, f, <<>>) = Integer(5)

(***************************************************************************)
(* C6: for every function g bound in the program's scope and arguments a,  *)
(* b, y: if g(a) yields a function c, then c reads a as g's parameter, and *)
(* c(y) yields the same right after its creation, after g was called again *)
(* with b, and when called once more; and the function g(b) yielded then   *)
(* yields for y what a g(b) made on its own yields.                        *)
(***************************************************************************)
C6_ClosuresAreIndependent ==
    \A name \in Globals(heap) : \A a, b, y \in ArgValues :
        LET g == heap[GlobalEnv].store[name]
            made == applyFunction(g, <<a>>, Fresh(heap, na))
            c == made.v
            first == applyFunction(c, <<y>>, made.st)
            other == applyFunction(g, <<b>>, first.st)
            again == applyFunction(c, <<y>>, other.st)
            twice == applyFunction(c, <<y>>, again.st)
            alone == applyFunction(g, <<b>>, Fresh(heap, na))
        IN (IsFunction(g) /\ Len(g.Parameters) > 0 /\ IsFunction(c))
           => /\ Get(made.st.heap, c.Env, g.Parameters[1].Value) = [val |-> a, ok |-> TRUE]
              /\ Shape(again.v) = Shape(first.v)
              /\ Shape(twice.v) = Shape(first.v)
              /\ Shape(applyFunction(other.v, <<y>>, twice.st).v)
                    = Shape(applyFunction(alone.v, <<y>>, alone.st).v)

\* h and f are closures two calls of the same function made, and they yield
\* different values for the same argument.
C6_Witness ==
    /\ {"f", "g", "h"} \subseteq Globals(heap)
    /\ LET f == heap[GlobalEnv].store["f"]
           h == heap[GlobalEnv].store["h"]
       IN /\ IsFunction(f) /\ IsFunction(h)
          /\ heap[f.Env].outer # 0 /\ heap[h.Env].outer = heap[f.Env].outer
          /\ Shape(f) = Shape(h)
          /\ CallShape(heap, na, h, <<Integer(3)>>) = Integer(5)
          /\ CallShape(heap, na, f, <<Integer(3)>>) = Integer(6)

(***************************************************************************)
(* C7: in a call with fewer arguments than parameters, every reference in  *)
(* the body to a parameter that got no argument yields the ERROR           *)
(* "identifier not found: NAME".                                           *)
(* Fails: let x = 5; fn() { fn(x) { x } }()() yields 5: the name is        *)
(* deleted from the captured frame only, and x is found in its outer one.  *)
(***************************************************************************)
\* The names of the parameters of call event p that got no argument.
Unsupplied(p) ==
    {log[p].fn.Parameters[i].Value :
        i \in (Len(log[p].args) + 1)..Len(log[p].fn.Parameters)}

C7_UnsuppliedParameterIsUnbound ==
    \A p, q \in Events :
        (/\ IsEvent(p, "apply") /\ IsEvent(q, "ident")
         /\ log[q].call = log[p].call
         /\ log[q].name \in Unsupplied(p))
        => log[q].val = Error("identifier not found: " \o log[q].name)

(***************************************************************************)
(* C8 as claimed: in the new frame of a call, parameter i is bound to      *)
(* argument i for every i up to the smaller of the two counts.             *)
(* Fails: fn(x, x) { x }(1, 2) binds x to 2, so parameter 1 is not bound   *)
(* to argument 1.                                                          *)
(***************************************************************************)
Min(a, b) == IF a < b THEN a ELSE b

\* How many parameters of call event p got an argument.
Supplied(p) == Min(Len(log[p].fn.Parameters), Len(log[p].args))

C8_ParametersBoundByPosition ==
    \A p \in Events : IsEvent(p, "apply") =>
        \A i \in 1..Supplied(p) :
            LET param == log[p].fn.Parameters[i].Value
            IN param \in DOMAIN log[p].frame /\ log[p].frame[param] = log[p].args[i]

(***************************************************************************)
(* C8 amended: the new frame binds exactly the names of the parameters     *)
(* that got an argument; parameter i is bound to argument i unless a later *)
(* parameter that got an argument has the same name (the last one wins);   *)
(* arguments beyond the parameters are bound nowhere.                      *)
(***************************************************************************)
C8_ParametersBoundLastWins ==
    \A p \in Events : IsEvent(p, "apply") =>
        LET params == log[p].fn.Parameters
        IN /\ DOMAIN log[p].frame = {params[i].Value : i \in 1..Supplied(p)}
           /\ \A i \in 1..Supplied(p) :
                 (\A j \in (i + 1)..Supplied(p) : params[j].Value # params[i].Value)
                 => log[p].frame[params[i].Value] = log[p].args[i]

\* A call with more arguments than parameters evaluated its body and
\* yielded the value of its one parameter.
C8_Witness ==
    \E p, q \in Events :
        /\ IsEvent(p, "apply") /\ IsEvent(q, "applied") /\ log[q].call = log[p].call
        /\ Len(log[p].fn.Parameters) = 1
        /\ Len(log[p].args) = 2
        /\ log[q].val = log[p].args[1]

(***************************************************************************)
(* evalInfixExpression on its own: every operator the parser produces, on  *)
(* every pair of operand values Eval can hand it (any value but an ERROR,  *)
(* nil included).                                                          *)
(***************************************************************************)
Operators == {"+", "-", "*", "/", "<", ">", "==", "!="}

Operands ==
    {Integer(0), Integer(5), Integer(-3), True, False, NULL, NIL,
     String(""), String("a"), String("b"), Builtin("len"),
     Function(<<>>, Block(<<>>), GlobalEnv, 1), Array(<<>>, 2), Array(<<Integer(5)>>, 3),
     ReturnValue(Integer(5), 4)}

InitInfix ==
    /\ heap = <<NewEnvironment>>
    /\ na = 0
    /\ result = NIL
    /\ halted = FALSE
    /\ nstmts = 0
    /\ log = <<>>
    /\ op \in Operators
    /\ left \in Operands
    /\ right \in Operands
    /\ out = NIL
    /\ phase = "infix"
    /\ expr = NoBlock
    /\ input = <<>>
    /\ program = NoBlock
    /\ reparsed = NoBlock

applyInfix ==
    /\ phase = "infix"
    /\ out' = evalInfixExpression(op, left, right)
    /\ phase' = "done"
    /\ UNCHANGED <<op, left, right, expr>>
    /\ UNCHANGED evalVars
    /\ UNCHANGED parseVars

NextInfix == applyInfix

SpecInfix == InitInfix /\ [][NextInfix]_vars

(***************************************************************************)
(* C9: for every operator, == and != included, operands of different types *)
(* give the ERROR "type mismatch: LTYPE OP RTYPE".                         *)
(* Fails: 5 == true is FALSE and 5 != true is TRUE: the == and != cases    *)
(* come before the type test.                                              *)
(***************************************************************************)
InfixMessage(what) == what \o left.type \o " " \o op \o " " \o right.type

C9_DifferentTypesAreMismatch ==
    (phase = "done" /\ ~IsNil(left) /\ ~IsNil(right) /\ left.type # right.type)
    => out = Error(InfixMessage("type mismatch: "))

(***************************************************************************)
(* C10: on two STRING operands, + yields the STRING left followed by       *)
(* right, and every other operator, == and != included, yields the ERROR   *)
(* "unknown operator: STRING OP STRING".                                   *)
(***************************************************************************)
C10_StringOperators ==
    (phase = "done" /\ left.type = "STRING" /\ right.type = "STRING")
    => IF op = "+" THEN out = String(left.Str \o right.Str)
       ELSE out = Error("unknown operator: STRING " \o op \o " STRING")

\* "a" == "a" gave the ERROR.
C10_Witness ==
    /\ phase = "done"
    /\ left = String("a") /\ right = String("a") /\ op = "=="
    /\ out = Error("unknown operator: STRING == STRING")

(***************************************************************************)
(* Eval on one node: an expression, or a statement, evaluated in the       *)
(* program's frame after let x = 5.                                        *)
(***************************************************************************)
Not(e) == PrefixExpression("!", e)

Neg(e) == PrefixExpression("-", e)

Infix(l, o, r) == InfixExpression(l, o, r)

\* if (false) { 1 }: an expression whose value is NULL.
NullExpr == If(Boolean(FALSE), <<ES(Num(1))>>)

\* fn() { }(): an expression whose value is a nil object.Object.
NilExpr == Call(Fn(<<>>, <<>>), <<>>)

\* Expressions of every type of value.
Literals ==
    {Boolean(TRUE), Boolean(FALSE), Num(0), Num(5), StringLiteral(""), StringLiteral("a"),
     NullExpr, ArrayLiteral(<<>>), ArrayLiteral(<<Num(7)>>), Fn(<<>>, <<ES(Num(1))>>),
     Id("len"), Id("x")}

\* Expressions whose value is a BOOLEAN, one for each way of producing one.
BoolExprs ==
    {Boolean(TRUE), Boolean(FALSE), Not(Boolean(TRUE)), Not(Num(5)), Not(NullExpr),
     Not(Not(Boolean(FALSE))), Infix(Num(1), "<", Num(2)), Infix(Num(1), ">", Num(2)),
     Infix(Num(1), "==", Num(1)), Infix(Num(1), "!=", Num(1)),
     Infix(Boolean(TRUE), "==", Boolean(TRUE)), Infix(Boolean(TRUE), "!=", Boolean(TRUE)),
     Infix(NullExpr, "==", NullExpr)}

BoolComparisons == {Infix(a, o, b) : a \in BoolExprs, b \in BoolExprs, o \in {"==", "!="}}

\* The conditions of the if-expressions: a value of every type, nil, and the
\* unbound identifier u, whose value is an ERROR.
Conditions == Literals \cup BoolExprs \cup {NilExpr, Id("u")}

\* { let a = 1; 1 }
ConsequenceBlock == Block(<<LetStatement("a", Num(1)), ES(Num(1))>>)

\* { let b = 2; 2 }
AlternativeBlock == Block(<<LetStatement("b", Num(2)), ES(Num(2))>>)

IfExprs ==
    {IfExpression(c, ConsequenceBlock, alt) : c \in Conditions, alt \in {NoBlock, AlternativeBlock}}

\* x is bound, u, v and w are not.
Operands2 == {Id("x"), Id("u"), Id("v")}

InfixesOfIdentifiers == {Infix(a, "+", b) : a \in Operands2, b \in Operands2}

Items == {Id("x"), Id("v"), Id("w"), Num(1)}

MaxItems == 3

ItemLists == UNION {[1..n -> Items] : n \in 0..MaxItems}

\* u, len, x and fn(p) { p }: an ERROR, a BUILTIN, an INTEGER and a FUNCTION.
Callees == {Id("u"), Id("len"), Id("x"), Fn(<<"p">>, <<ES(Id("p"))>>)}

CallsOfLists == {Call(f, args) : f \in Callees, args \in ItemLists}

ArraysOfLists == {ArrayLiteral(elems) : elems \in ItemLists}

\* Expressions without a let whose value is an ERROR.
ErrorExprs ==
    {Id("u"), Infix(Num(5), "+", Boolean(TRUE)), Infix(Id("x"), "+", Id("u")),
     Neg(Boolean(TRUE)), Call(Id("len"), <<Num(1)>>), Call(Num(1), <<>>),
     Call(Fn(<<>>, <<ES(Id("u"))>>), <<>>), If(Boolean(TRUE), <<ES(Id("u"))>>),
     ArrayLiteral(<<Num(1), Id("u")>>), IndexExpression(Num(1), Num(0))}

LetNames == {"x", "y"}

LetsOfErrors == {LetStatement(name, e) : name \in LetNames, e \in ErrorExprs}

\* if (c) { if (d) { let n = 3 } else { let m = 4 } n } else { let n = 7; m }
NestedLet(c, d, n, m) ==
    IfExpression(Boolean(c),
                 Block(<<ES(IfExpression(Boolean(d), Block(<<LetStatement(n, Num(3))>>),
                                         Block(<<LetStatement(m, Num(4))>>))),
                         ES(Id(n))>>),
                 Block(<<LetStatement(n, Num(7)), ES(Id(m))>>))

NestedLets ==
    {NestedLet(c, d, n, m) : c \in BOOLEAN, d \in BOOLEAN, n \in LetNames, m \in LetNames}

\* fn() { if (true) { let n = 3 } n }()
LetInCall(n) ==
    Call(Fn(<<>>, <<ES(If(Boolean(TRUE), <<LetStatement(n, Num(3))>>)), ES(Id(n))>>), <<>>)

LetsInCalls == {LetInCall(n) : n \in LetNames}

\* The function of let NAME = fn(...) { ... }, by what its body does with NAME:
\* fn() { NAME }, fn() { 1 + NAME }, fn(n) { if (n) { NAME(false) } else { 1 } },
\* fn(NAME) { NAME }, fn() { let NAME = 2; NAME } and fn() { x }.
SelfReferring(name) ==
    {Fn(<<>>, <<ES(Id(name))>>),
     Fn(<<>>, <<ES(Infix(Num(1), "+", Id(name)))>>),
     Fn(<<"n">>, <<ES(IfExpression(Id("n"),
                                   Block(<<ES(Call(Id(name), <<Boolean(FALSE)>>))>>),
                                   Block(<<ES(Num(1))>>)))>>),
     Fn(<<name>>, <<ES(Id(name))>>),
     Fn(<<>>, <<LetStatement(name, Num(2)), ES(Id(name))>>),
     Fn(<<>>, <<ES(Id("x"))>>)}

\* f and g are bound nowhere, x is bound, len is a builtin.
SelfNames == {"f", "g", "x", "len"}

\* let NAME = FN; NAME(ARG), after let NAME = 1 when rebound is true.
SelfReference(name, fn, arg, rebound) ==
    (IF rebound THEN <<LetStatement(name, Num(1))>> ELSE <<>>)
        \o <<LetStatement(name, fn), ES(Call(Id(name), <<arg>>))>>

SelfReferenceBodies ==
    {SelfReference(name, fn, arg, rebound) :
        name \in SelfNames, fn \in UNION {SelfReferring(n) : n \in SelfNames},
        arg \in {Boolean(TRUE), Boolean(FALSE)}, rebound \in BOOLEAN}

\* The statements in the program's frame, if (true) { ... }, and in the frame
\* of a call, fn() { ... }().
SelfReferences ==
    {If(Boolean(TRUE), stmts) : stmts \in SelfReferenceBodies}
        \cup {Call(Fn(<<>>, stmts), <<>>) : stmts \in SelfReferenceBodies}

\* The parameter lists of the functions of Closures: x is bound in the
\* program's frame, y and z where the function is made, q nowhere.
ParameterLists == {<<>>, <<"x">>, <<"y">>, <<"q">>, <<"y", "q">>, <<"x", "y">>, <<"y", "y">>}

\* fn(PARAMS) { y }
MadeFunction(params) == Fn(params, <<ES(Id("y"))>>)

\* Expressions that yield a function nothing has called yet:
\*   if (true) { let y = 1; let z = 2; fn(PARAMS) { y } }
\*   fn(y, z) { fn(PARAMS) { y } }(1, 2)
\*   fn(y) { fn(z) { fn(PARAMS) { y } } }(1)(2)
Closures ==
    {If(Boolean(TRUE), <<LetStatement("y", Num(1)), LetStatement("z", Num(2)),
                         ES(MadeFunction(params))>>) : params \in ParameterLists}
        \cup {Call(Fn(<<"y", "z">>, <<ES(MadeFunction(params))>>), <<Num(1), Num(2)>>) :
                params \in ParameterLists}
        \cup {Call(Call(Fn(<<"y">>, <<ES(Fn(<<"z">>, <<ES(MadeFunction(params))>>))>>),
                        <<Num(1)>>), <<Num(2)>>) : params \in ParameterLists}

\* let f = fn(PARAMS) { let y = x; let z = 3; y }; f(1); NAME
CallThenRead(params, name) ==
    <<LetStatement("f", Fn(params, <<LetStatement("y", Id("x")), LetStatement("z", Num(3)),
                                     ES(Id("y"))>>)),
      ES(Call(Id("f"), <<Num(1)>>)),
      ES(Id(name))>>

\* fn(PARAMS) { let x = 2; x }(1); NAME
CallLiteralThenRead(params, name) ==
    <<ES(Call(Fn(params, <<LetStatement("x", Num(2)), ES(Id("x"))>>), <<Num(1)>>)),
      ES(Id(name))>>

\* let f = fn(g, n) { if (n) { g(g, false); NAME } else { n } }; f(f, true):
\* the function calls itself through its parameter g.
CallItself(name) ==
    <<LetStatement("f", Fn(<<"g", "n">>,
                           <<ES(IfExpression(Id("n"),
                                             Block(<<ES(Call(Id("g"), <<Id("g"), Boolean(FALSE)>>)),
                                                     ES(Id(name))>>),
                                             Block(<<ES(Id("n"))>>)))>>)),
      ES(Call(Id("f"), <<Id("f"), Boolean(TRUE)>>))>>

CallerBodies ==
    {CallThenRead(params, name) : params \in ParameterLists, name \in {"x", "y", "z", "f"}}
        \cup {CallLiteralThenRead(params, name) : params \in ParameterLists, name \in {"x", "y"}}
        \cup {CallItself(name) : name \in {"x", "g", "n"}}

\* The caller is the program, if (true) { ... }, the body of a function
\* that sees the program's x, fn() { ... }(), or the body of a function with
\* a parameter x, fn(x) { ... }(7).
Callers ==
    {If(Boolean(TRUE), stmts) : stmts \in CallerBodies}
        \cup {Call(Fn(<<>>, stmts), <<>>) : stmts \in CallerBodies}
        \cup {Call(Fn(<<"x">>, stmts), <<Num(7)>>) : stmts \in CallerBodies}

Expressions ==
    Literals \cup BoolExprs \cup BoolComparisons \cup IfExprs
        \cup InfixesOfIdentifiers \cup CallsOfLists \cup ArraysOfLists
        \cup LetsOfErrors \cup NestedLets \cup LetsInCalls \cup SelfReferences
        \cup Closures \cup Callers

\* The program's frame after let x = 5.
FrameOfX == [store |-> [n \in {"x"} |-> Integer(5)], outer |-> 0]

InitExpr ==
    /\ heap = <<FrameOfX>>
    /\ na = 0
    /\ result = NIL
    /\ halted = FALSE
    /\ nstmts = 0
    /\ log = <<>>
    /\ op = "+"
    /\ left = NIL
    /\ right = NIL
    /\ out = NIL
    /\ phase = "expr"
    /\ expr \in Expressions
    /\ input = <<>>
    /\ program = NoBlock
    /\ reparsed = NoBlock

evalNode ==
    /\ phase = "expr"
    /\ LET r == Eval(expr, GlobalEnv, Fresh(heap, na))
       IN /\ out' = r.v
          /\ heap' = r.st.heap
          /\ na' = r.st.na
          /\ log' = r.st.log
    /\ phase' = "evaluated"
    /\ UNCHANGED <<expr, op, left, right, result, halted, nstmts>>
    /\ UNCHANGED parseVars

NextExpr == evalNode

SpecExpr == InitExpr /\ [][NextExpr]_vars

\* The value of the side-effect free expression e in the program's frame.
ValueOf(e) == Eval(e, GlobalEnv, Fresh(heap, na)).v

(***************************************************************************)
(* C11: every BOOLEAN value an evaluation yields is the object TRUE or the *)
(* object FALSE and every NULL is the object NULL; and a == b on two       *)
(* BOOLEAN operands is TRUE exactly when they have the same truth value,   *)
(* a != b exactly when they differ.                                        *)
(***************************************************************************)
C11_BooleansAreSingletons ==
    phase = "evaluated" =>
        /\ out.type = "BOOLEAN" => out \in {True, False}
        /\ out.type = "NULL" => out = NULL
        /\ \A p \in Events : IsEvent(p, "branch") =>
              /\ log[p].cond.type = "BOOLEAN" => log[p].cond \in {True, False}
              /\ log[p].cond.type = "NULL" => log[p].cond = NULL
        /\ (/\ expr.node = "InfixExpression" /\ expr.Operator \in {"==", "!="}
            /\ ValueOf(expr.Left).type = "BOOLEAN"
            /\ ValueOf(expr.Right).type = "BOOLEAN")
           => LET same == ValueOf(expr.Left).Bool = ValueOf(expr.Right).Bool
              IN out = IF (expr.Operator = "==") = same THEN True ELSE False

\* !5 == (1 > 2): two BOOLEAN values computed in different ways are equal.
C11_Witness ==
    /\ phase = "evaluated"
    /\ expr = Infix(Not(Num(5)), "==", Infix(Num(1), ">", Num(2)))
    /\ out = True

(***************************************************************************)
(* If-expressions whose consequence is { let a = 1; 1 } and whose          *)
(* alternative, when there is one, is { let b = 2; 2 }: a block was        *)
(* evaluated when its let bound its name.                                  *)
(***************************************************************************)
Bound(name) == \E p \in Events : IsEvent(p, "let") /\ log[p].name = name

IfEvaluated == phase = "evaluated" /\ expr \in IfExprs

(***************************************************************************)
(* C12 as claimed: the consequence is evaluated exactly when the value of  *)
(* the condition is neither NULL nor FALSE; otherwise the alternative is,  *)
(* when there is one, and the result is NULL when there is none.           *)
(* Fails: the value of u in if (u) { let a = 1; 1 } is an ERROR, neither   *)
(* NULL nor FALSE, and the consequence is not evaluated.                   *)
(***************************************************************************)
C12_ConsequenceIffNotNullNorFalse ==
    IfEvaluated =>
        LET c == ValueOf(expr.Condition)
            falsy == c = NULL \/ c = False
        IN /\ Bound("a") <=> ~falsy
           /\ Bound("b") <=> (falsy /\ expr.Alternative # NoBlock)
           /\ (falsy /\ expr.Alternative = NoBlock) => out = NULL
           /\ ~(Bound("a") /\ Bound("b"))

(***************************************************************************)
(* C12 amended: when the value of the condition is an ERROR no block is    *)
(* evaluated and the result is that ERROR; otherwise the consequence is    *)
(* evaluated exactly when the value is neither NULL nor FALSE (0, "" and   *)
(* nil count as true) and the result is the block's value, else the        *)
(* alternative is when there is one, and the result is NULL when there is  *)
(* none.                                                                   *)
(***************************************************************************)
C12_ConsequenceIffTruthyAndNoError ==
    IfEvaluated =>
        LET c == ValueOf(expr.Condition)
            falsy == c = NULL \/ c = False
        IN /\ isError(c) => (~Bound("a") /\ ~Bound("b") /\ out = c)
           /\ ~isError(c) =>
                 /\ Bound("a") <=> ~falsy
                 /\ Bound("a") => out = Integer(1)
                 /\ Bound("b") <=> (falsy /\ expr.Alternative # NoBlock)
                 /\ Bound("b") => out = Integer(2)
                 /\ (falsy /\ expr.Alternative = NoBlock) => out = NULL
                 /\ ~(Bound("a") /\ Bound("b"))

\* if (0) { let a = 1; 1 } else { let b = 2; 2 } evaluated the consequence.
C12_Witness ==
    /\ IfEvaluated
    /\ expr.Condition = Num(0)
    /\ expr.Alternative = AlternativeBlock
    /\ Bound("a") /\ ~Bound("b")
    /\ out = Integer(1)

(***************************************************************************)
(* evalPrefixExpression and evalIndexExpression on their own, on values of *)
(* every type, an ERROR and nil included.                                  *)
(***************************************************************************)
PrefixOperators == {"!", "-"}

Values ==
    Operands \cup
    {Integer(-1), Integer(1), Integer(2), Integer(3),
     Array(<<Integer(7), True, String("a")>>, 5),
     Error("identifier not found: u")}

InitValues ==
    /\ heap = <<NewEnvironment>>
    /\ na = 0
    /\ result = NIL
    /\ halted = FALSE
    /\ nstmts = 0
    /\ log = <<>>
    /\ op \in PrefixOperators
    /\ left \in Values
    /\ right \in Values
    /\ out = NIL
    /\ phase = "values"
    /\ expr = NoBlock
    /\ input = <<>>
    /\ program = NoBlock
    /\ reparsed = NoBlock

applyPrefix ==
    /\ phase = "values"
    /\ out' = evalPrefixExpression(op, right)
    /\ phase' = "prefix"
    /\ UNCHANGED <<op, left, right, expr>>
    /\ UNCHANGED evalVars
    /\ UNCHANGED parseVars

applyIndex ==
    /\ phase = "values"
    /\ out' = evalIndexExpression(left, right)
    /\ phase' = "index"
    /\ UNCHANGED <<op, left, right, expr>>
    /\ UNCHANGED evalVars
    /\ UNCHANGED parseVars

NextValues == applyPrefix \/ applyIndex

SpecValues == InitValues /\ [][NextValues]_vars

(***************************************************************************)
(* C13: ! maps TRUE to FALSE, FALSE to TRUE, NULL to TRUE and every other  *)
(* value to FALSE; so on a BOOLEAN it is negation and applying it twice    *)
(* gives the operand back, and on every value the result is TRUE exactly   *)
(* when the value is not truthy.                                           *)
(***************************************************************************)
C13_BangInvertsTruthiness ==
    (phase = "prefix" /\ op = "!") =>
        /\ right = True => out = False
        /\ right = False => out = True
        /\ right = NULL => out = True
        /\ right \notin {True, False, NULL} => out = False
        /\ right.type = "BOOLEAN" =>
              /\ out = evalBoolean(~right.Bool)
              /\ evalPrefixExpression("!", out) = right
        /\ (out = True) <=> ~isTruthy(right)

\* !NULL is TRUE.
C13_Witness == phase = "prefix" /\ op = "!" /\ right = NULL /\ out = True

(***************************************************************************)
(* C14: an ARRAY of n elements indexed by the INTEGER i gives the element  *)
(* at position i when 0 <= i < n and NULL otherwise; operands of any other *)
(* types give the ERROR "index operator not supported: " followed by the   *)
(* type of the left operand.                                               *)
(***************************************************************************)
C14_IndexInBoundsOrNull ==
    (phase = "index" /\ ~IsNil(left) /\ ~IsNil(right)) =>
        IF left.type = "ARRAY" /\ right.type = "INTEGER"
        THEN LET n == Len(left.Elements)
                 i == right.Int
             IN /\ (0 <= i /\ i < n) => out = left.Elements[i + 1]
                /\ (i < 0 \/ i >= n) => out = NULL
                /\ n = 0 => out = NULL
        ELSE out = Error("index operator not supported: " \o left.type)

\* The last element of an array of three.
C14_Witness ==
    /\ phase = "index"
    /\ left.type = "ARRAY" /\ Len(left.Elements) = 3
    /\ right = Integer(2)
    /\ out = String("a")

(***************************************************************************)
(* C15: the program without statements evaluates to the NULL value.        *)
(* Fails: evalProgram returns its result variable, which no turn of the    *)
(* loop assigned: a nil object.Object, not the NULL object.                *)
(***************************************************************************)
C15_EmptyProgramYieldsNull == (phase = "program" /\ nstmts = 0) => result = NULL

(***************************************************************************)
(* package token, and the lexer.  In the lexer, the parser and the         *)
(* rendering of the AST a Go string is the sequence of its bytes, each a   *)
(* string of one character: a source text, a Token's Literal, an           *)
(* Identifier's or StringLiteral's Value and an Operator are such          *)
(* sequences.                                                              *)
(***************************************************************************)
Token(type, literal) == [Type |-> type, Literal |-> literal]

LookupIdent(ident) ==
    CASE ident = <<"f", "n">> -> "FUNCTION"
      [] ident = <<"l", "e", "t">> -> "LET"
      [] ident = <<"i", "f">> -> "IF"
      [] ident = <<"e", "l", "s", "e">> -> "ELSE"
      [] ident = <<"r", "e", "t", "u", "r", "n">> -> "RETURN"
      [] ident = <<"t", "r", "u", "e">> -> "TRUE"
      [] ident = <<"f", "a", "l", "s", "e">> -> "FALSE"
      [] OTHER -> "IDENT"

isLetter(ch) ==
    ch \in
    {"a", "b", "c", "d", "e", "f", "g", "h", "i", "j", "k", "l", "m", "n",
     "o", "p", "q", "r", "s", "t", "u", "v", "w", "x", "y", "z", "A", "B",
     "C", "D", "E", "F", "G", "H", "I", "J", "K", "L", "M", "N", "O", "P",
     "Q", "R", "S", "T", "U", "V", "W", "X", "Y", "Z", "_"}

isDigit(ch) == ch \in {"0", "1", "2", "3", "4", "5", "6", "7", "8", "9"}

isWhitespace(ch) == ch \in {" ", "\t", "\n", "\r"}

\* The tokens of one character whose type is the character.
Punctuation == {"+", "-", "*", "/", "<", ">", ",", ";", "(", ")", "{", "}", "[", "]"}

\* Each of the four gives the first position from pos on whose byte is not
\* of its kind, or Len(chars) + 1.
RECURSIVE skipWhitespace(_, _)
skipWhitespace(chars, pos) ==
    IF pos <= Len(chars) /\ isWhitespace(chars[pos]) THEN skipWhitespace(chars, pos + 1) ELSE pos

RECURSIVE readIdentifier(_, _)
readIdentifier(chars, pos) ==
    IF pos <= Len(chars) /\ isLetter(chars[pos]) THEN readIdentifier(chars, pos + 1) ELSE pos

RECURSIVE readNumber(_, _)
readNumber(chars, pos) ==
    IF pos <= Len(chars) /\ isDigit(chars[pos]) THEN readNumber(chars, pos + 1) ELSE pos

\* pos is the position after the opening quote; gives that of the closing quote.
RECURSIVE readString(_, _)
readString(chars, pos) ==
    IF pos <= Len(chars) /\ chars[pos] # "\"" THEN readString(chars, pos + 1) ELSE pos

\* The token that starts at or after pos, and the position after it.
NextToken(chars, pos0) ==
    LET pos == skipWhitespace(chars, pos0)
        ch == chars[pos]
        two == pos < Len(chars) /\ chars[pos + 1] = "="
    IN IF pos > Len(chars) THEN [tok |-> Token("EOF", <<>>), pos |-> pos]
       ELSE IF ch = "=" /\ two THEN [tok |-> Token("==", <<"=", "=">>), pos |-> pos + 2]
       ELSE IF ch = "!" /\ two THEN [tok |-> Token("!=", <<"!", "=">>), pos |-> pos + 2]
       ELSE IF ch \in {"=", "!"} \cup Punctuation THEN [tok |-> Token(ch, <<ch>>), pos |-> pos + 1]
       ELSE IF ch = "\""
       THEN LET e == readString(chars, pos + 1)
            IN [tok |-> Token("STRING", SubSeq(chars, pos + 1, e - 1)), pos |-> e + 1]
       ELSE IF isLetter(ch)
       THEN LET e == readIdentifier(chars, pos)
                ident == SubSeq(chars, pos, e - 1)
            IN [tok |-> Token(LookupIdent(ident), ident), pos |-> e]
       ELSE IF isDigit(ch)
       THEN LET e == readNumber(chars, pos)
            IN [tok |-> Token("INT", SubSeq(chars, pos, e - 1)), pos |-> e]
       ELSE [tok |-> Token("ILLEGAL", <<ch>>), pos |-> pos + 1]

\* The tokens NextToken gives from pos on, up to and including the first EOF.
RECURSIVE Lex(_, _)
Lex(chars, pos) ==
    CHOOSE toks \in {IF t.tok.Type = "EOF" THEN <<t.tok>> ELSE <<t.tok>> \o Lex(chars, t.pos) :
                        t \in {NextToken(chars, pos)}} : TRUE

(***************************************************************************)
(* package ast: the String methods.  The nodes the parser builds for       *)
(* integer, boolean and string literals carry their Token, whose Literal   *)
(* their String methods return.                                            *)
(***************************************************************************)
RECURSIVE NodeString(_)
\* strings.Join of the String() of nodes from the i-th on, with ", " between.
RECURSIVE JoinStrings(_, _)
JoinStrings(nodes, i) ==
    IF i > Len(nodes) THEN <<>>
    ELSE IF i = Len(nodes) THEN NodeString(nodes[i])
    ELSE NodeString(nodes[i]) \o <<",", " ">> \o JoinStrings(nodes, i + 1)

\* The String() of the statements from the i-th on, one after the other.
RECURSIVE ConcatStrings(_, _)
ConcatStrings(stmts, i) ==
    IF i > Len(stmts) THEN <<>> ELSE NodeString(stmts[i]) \o ConcatStrings(stmts, i + 1)

FunctionLiteralString(n) ==
    <<"(">> \o JoinStrings(n.Parameters, 1) \o <<")", "{">> \o NodeString(n.Body) \o <<"}">>

IfExpressionString(n) ==
    <<"i", "f", "(">> \o NodeString(n.Condition) \o <<")", "{">>
        \o NodeString(n.Consequence) \o <<"}">>
        \o (IF n.Alternative.node # "nil"
            THEN <<"e", "l", "s", "e", "{">> \o NodeString(n.Alternative) \o <<"}">>
            ELSE <<>>)

NodeString(n) ==
    CASE n.node = "Program" -> ConcatStrings(n.Statements, 1)
      [] n.node = "Identifier" -> n.Value
      [] n.node = "LetStatement" ->
            NodeString(n.Name) \o <<" ", "=", " ">>
                \o (IF n.Value.node # "nil" THEN NodeString(n.Value) ELSE <<>>) \o <<";">>
      [] n.node = "ReturnStatement" ->
            (IF n.ReturnValue.node # "nil" THEN NodeString(n.ReturnValue) ELSE <<>>) \o <<";">>
      [] n.node = "ExpressionStatement" ->
            IF n.Expression.node # "nil" THEN NodeString(n.Expression) ELSE <<>>
      [] n.node = "IntegerLiteral" -> n.Token.Literal
      [] n.node = "PrefixExpression" ->
            <<"(">> \o n.Operator \o NodeString(n.Right) \o <<")">>
      [] n.node = "InfixExpression" ->
            <<"(">> \o NodeString(n.Left) \o <<" ">> \o n.Operator \o <<" ">>
                \o NodeString(n.Right) \o <<")">>
      [] n.node = "Boolean" -> n.Token.Literal
      [] n.node = "BlockStatement" -> ConcatStrings(n.Statements, 1)
      [] n.node = "IfExpression" -> IfExpressionString(n)
      [] n.node = "FunctionLiteral" -> FunctionLiteralString(n)
      [] n.node = "CallExpression" ->
            NodeString(n.Function) \o <<"(">> \o JoinStrings(n.Arguments, 1) \o <<")">>
      [] n.node = "StringLiteral" -> n.Token.Literal
      [] n.node = "ArrayLiteral" -> <<"[">> \o JoinStrings(n.Elements, 1) \o <<"]">>
      [] n.node = "IndexExpression" ->
            <<"(">> \o NodeString(n.Left) \o <<"[">> \o NodeString(n.Index) \o <<"]", ")">>

(***************************************************************************)
(* The parser.  p is [toks, pos, errors]: the tokens of the source text,   *)
(* the position of the current token (the peek token is the next one) and  *)
(* the error strings so far.  A parse function returns [node, p].          *)
(***************************************************************************)
Program(stmts) == [node |-> "Program", Statements |-> stmts]

\* A nil ast.Expression or ast.Statement.
NoExpression == [node |-> "nil"]

LOWEST == 1

EQUALS == 2

LESSGREATER == 3

SUM == 4

PRODUCT == 5

PREFIX == 6

CALL == 7

INDEX == 8

\* precedences with * and / on the step of + and -.
precedencesFlat(type) ==
    CASE type \in {"==", "!="} -> EQUALS
      [] type \in {"<", ">"} -> LESSGREATER
      [] type \in {"+", "-", "/", "*"} -> SUM
      [] type = "(" -> CALL
      [] type = "[" -> INDEX
      [] OTHER -> LOWEST

precedences(type) ==
    CASE type \in {"==", "!="} -> EQUALS
      [] type \in {"<", ">"} -> LESSGREATER
      [] type \in {"+", "-"} -> SUM
      [] type \in {"/", "*"} -> PRODUCT
      [] type = "(" -> CALL
      [] type = "[" -> INDEX
      [] OTHER -> LOWEST

New(toks) == [toks |-> toks, pos |-> 1, errors |-> <<>>]

\* Past the end of the source the lexer goes on giving EOF.
curToken(p) == IF p.pos <= Len(p.toks) THEN p.toks[p.pos] ELSE Token("EOF", <<>>)

peekToken(p) == IF p.pos + 1 <= Len(p.toks) THEN p.toks[p.pos + 1] ELSE Token("EOF", <<>>)

nextToken(p) == [p EXCEPT !.pos = @ + 1]

curPrecedence(p) == precedences(curToken(p).Type)

peekPrecedence(p) == precedences(peekToken(p).Type)

peekError(p, type) ==
    [p EXCEPT !.errors = Append(@, "expected next token to be " \o type \o ", got "
                                       \o peekToken(p).Type \o " instead")]

\* Returns [ok, p].
expectPeek(p, type) ==
    IF peekToken(p).Type = type THEN [ok |-> TRUE, p |-> nextToken(p)]
    ELSE [ok |-> FALSE, p |-> peekError(p, type)]

noPrefixParseFnError(p, type) ==
    [p EXCEPT !.errors = Append(@, "no prefix parse function for " \o type \o " found")]

Parsed(n, p) == [node |-> n, p |-> p]

DigitValue(ch) ==
    CASE ch = "0" -> 0 [] ch = "1" -> 1 [] ch = "2" -> 2 [] ch = "3" -> 3 [] ch = "4" -> 4
      [] ch = "5" -> 5 [] ch = "6" -> 6 [] ch = "7" -> 7 [] ch = "8" -> 8 [] ch = "9" -> 9

\* strconv.ParseInt on a sequence of digits.
RECURSIVE ParseInt(_)
ParseInt(digits) ==
    IF digits = <<>> THEN 0
    ELSE 10 * ParseInt(SubSeq(digits, 1, Len(digits) - 1)) + DigitValue(digits[Len(digits)])

prefixParseFns ==
    {"IDENT", "INT", "STRING", "!", "-", "TRUE", "FALSE", "(", "IF", "FUNCTION", "["}

infixParseFns == {"+", "-", "/", "*", "==", "!=", "<", ">", "(", "["}

\* The element of the set S of one element.  A parse function's result is
\* taken through a set of one element, {F(r) : r \in {G(p)}}, so that G(p)
\* is evaluated once before F reads it several times.
Pick(S) == CHOOSE x \in S : TRUE

RECURSIVE parseExpression(_, _)
RECURSIVE parseInfixes(_, _)
RECURSIVE parsePrefix(_)
RECURSIVE parseInfix(_, _)
RECURSIVE parseStatement(_)
RECURSIVE parseStatements(_, _)
RECURSIVE parseBlockStatement(_)
RECURSIVE parseExpressions(_, _, _)
RECURSIVE parseExpressionList(_, _)
RECURSIVE parseIfExpression(_)
RECURSIVE parseFunctionLiteral(_)

parseIdentifier(p) == Parsed(Identifier(curToken(p).Literal), p)

parseIntegerLiteral(p) ==
    Parsed(IntegerLiteral(ParseInt(curToken(p).Literal)) @@ [Token |-> curToken(p)], p)

parseStringLiteral(p) ==
    Parsed(StringLiteral(curToken(p).Literal) @@ [Token |-> curToken(p)], p)

parseBoolean(p) == Parsed(Boolean(curToken(p).Type = "TRUE") @@ [Token |-> curToken(p)], p)

parsePrefixExpression(p) ==
    Pick({Parsed(PrefixExpression(curToken(p).Literal, r.node), r.p) :
            r \in {parseExpression(nextToken(p), PREFIX)}})

parseInfixExpression(p, l) ==
    Pick({Parsed(InfixExpression(l, curToken(p).Literal, r.node), r.p) :
            r \in {parseExpression(nextToken(p), curPrecedence(p))}})

\* parseGroupedExpression after the expression e between the parentheses.
closeGroupedExpression(e) ==
    LET x == expectPeek(e.p, ")")
    IN IF x.ok THEN Parsed(e.node, x.p) ELSE Parsed(NoExpression, x.p)

parseGroupedExpression(p) ==
    Pick({closeGroupedExpression(e) : e \in {parseExpression(nextToken(p), LOWEST)}})

\* parseIfExpression after the consequence cons: the else part.
parseAlternative(cond, cons) ==
    LET x4 == expectPeek(nextToken(cons.p), "{")
    IN IF peekToken(cons.p).Type # "ELSE"
       THEN Parsed(IfExpression(cond, cons.node, NoBlock), cons.p)
       ELSE IF ~x4.ok THEN Parsed(NoExpression, x4.p)
       ELSE Pick({Parsed(IfExpression(cond, cons.node, alt.node), alt.p) :
                    alt \in {parseBlockStatement(x4.p)}})

\* parseIfExpression after the condition c.
parseConsequence(c) ==
    LET x2 == expectPeek(c.p, ")")
        x3 == expectPeek(x2.p, "{")
    IN IF ~x2.ok THEN Parsed(NoExpression, x2.p)
       ELSE IF ~x3.ok THEN Parsed(NoExpression, x3.p)
       ELSE Pick({parseAlternative(c.node, cons) : cons \in {parseBlockStatement(x3.p)}})

parseIfExpression(p) ==
    LET x1 == expectPeek(p, "(")
    IN IF ~x1.ok THEN Parsed(NoExpression, x1.p)
       ELSE Pick({parseConsequence(c) : c \in {parseExpression(nextToken(x1.p), LOWEST)}})

\* The identifiers after each comma; returns [nodes, p].
RECURSIVE parseParameters(_, _)
parseParameters(p, params) ==
    IF peekToken(p).Type = ","
    THEN LET p2 == nextToken(nextToken(p))
         IN parseParameters(p2, Append(params, Identifier(curToken(p2).Literal)))
    ELSE [nodes |-> params, p |-> p]

\* parseFunctionParameters after the identifiers ps.
closeParameters(ps) ==
    LET x == expectPeek(ps.p, ")")
    IN [nodes |-> IF x.ok THEN ps.nodes ELSE <<>>, ok |-> x.ok, p |-> x.p]

\* Returns [nodes, ok, p]; ok is false where the Go function returns nil.
parseFunctionParameters(p) ==
    IF peekToken(p).Type = ")" THEN [nodes |-> <<>>, ok |-> TRUE, p |-> nextToken(p)]
    ELSE LET p1 == nextToken(p)
         IN Pick({closeParameters(ps) :
                    ps \in {parseParameters(p1, <<Identifier(curToken(p1).Literal)>>)}})

\* parseFunctionLiteral after the parameters params.
parseBody(params) ==
    LET x2 == expectPeek(params.p, "{")
    IN IF ~x2.ok THEN Parsed(NoExpression, x2.p)
       ELSE Pick({Parsed(FunctionLiteral(params.nodes, body.node), body.p) :
                    body \in {parseBlockStatement(x2.p)}})

parseFunctionLiteral(p) ==
    LET x1 == expectPeek(p, "(")
    IN IF ~x1.ok THEN Parsed(NoExpression, x1.p)
       ELSE Pick({parseBody(params) : params \in {parseFunctionParameters(x1.p)}})

\* The expressions after each comma; returns [nodes, p].
parseExpressions(p, list, end) ==
    IF peekToken(p).Type = ","
    THEN Pick({parseExpressions(e.p, Append(list, e.node), end) :
                 e \in {parseExpression(nextToken(nextToken(p)), LOWEST)}})
    ELSE [nodes |-> list, p |-> p]

\* parseExpressionList after the expressions es.
closeExpressionList(es, end) ==
    LET x == expectPeek(es.p, end)
    IN [nodes |-> IF x.ok THEN es.nodes ELSE <<>>, ok |-> x.ok, p |-> x.p]

\* Returns [nodes, ok, p]; ok is false where the Go function returns nil.
parseExpressionList(p, end) ==
    IF peekToken(p).Type = end THEN [nodes |-> <<>>, ok |-> TRUE, p |-> nextToken(p)]
    ELSE Pick({Pick({closeExpressionList(es, end) :
                       es \in {parseExpressions(first.p, <<first.node>>, end)}}) :
                 first \in {parseExpression(nextToken(p), LOWEST)}})

parseCallExpression(p, function) ==
    Pick({Parsed(CallExpression(function, args.nodes), args.p) :
            args \in {parseExpressionList(p, ")")}})

parseArrayLiteral(p) ==
    Pick({Parsed(ArrayLiteral(elements.nodes), elements.p) :
            elements \in {parseExpressionList(p, "]")}})

\* parseIndexExpression after the index i.
closeIndexExpression(l, i) ==
    LET x == expectPeek(i.p, "]")
    IN IF x.ok THEN Parsed(IndexExpression(l, i.node), x.p) ELSE Parsed(NoExpression, x.p)

parseIndexExpression(p, l) ==
    Pick({closeIndexExpression(l, i) : i \in {parseExpression(nextToken(p), LOWEST)}})

\* prefixParseFns[curToken.Type]()
parsePrefix(p) ==
    LET type == curToken(p).Type
    IN CASE type = "IDENT" -> parseIdentifier(p)
         [] type = "INT" -> parseIntegerLiteral(p)
         [] type = "STRING" -> parseStringLiteral(p)
         [] type \in {"!", "-"} -> parsePrefixExpression(p)
         [] type \in {"TRUE", "FALSE"} -> parseBoolean(p)
         [] type = "(" -> parseGroupedExpression(p)
         [] type = "IF" -> parseIfExpression(p)
         [] type = "FUNCTION" -> parseFunctionLiteral(p)
         [] type = "[" -> parseArrayLiteral(p)

\* infixParseFns[curToken.Type](l)
parseInfix(p, l) ==
    LET type == curToken(p).Type
    IN CASE type = "(" -> parseCallExpression(p, l)
         [] type = "[" -> parseIndexExpression(p, l)
         [] OTHER -> parseInfixExpression(p, l)

\* The loop of parseExpression: l is [node, p], the expression parsed so far.
parseInfixes(l, precedence) ==
    IF peekToken(l.p).Type # ";" /\ precedence < peekPrecedence(l.p)
    THEN IF peekToken(l.p).Type \notin infixParseFns THEN l
         ELSE Pick({parseInfixes(l2, precedence) :
                      l2 \in {parseInfix(nextToken(l.p), l.node)}})
    ELSE l

parseExpression(p, precedence) ==
    IF curToken(p).Type \notin prefixParseFns
    THEN Parsed(NoExpression, noPrefixParseFnError(p, curToken(p).Type))
    ELSE Pick({parseInfixes(l, precedence) : l \in {parsePrefix(p)}})

\* The optional semicolon after a statement.
skipSemicolon(p) == IF peekToken(p).Type = ";" THEN nextToken(p) ELSE p

parseLetStatement(p) ==
    LET x1 == expectPeek(p, "IDENT")
        name == curToken(x1.p).Literal
        x2 == expectPeek(x1.p, "=")
    IN IF ~x1.ok THEN Parsed(NoExpression, x1.p)
       ELSE IF ~x2.ok THEN Parsed(NoExpression, x2.p)
       ELSE Pick({Parsed(LetStatement(name, v.node), skipSemicolon(v.p)) :
                    v \in {parseExpression(nextToken(x2.p), LOWEST)}})

parseReturnStatement(p) ==
    Pick({Parsed(ReturnStatement(v.node), skipSemicolon(v.p)) :
            v \in {parseExpression(nextToken(p), LOWEST)}})

parseExpressionStatement(p) ==
    Pick({Parsed(ExpressionStatement(e.node), skipSemicolon(e.p)) :
            e \in {parseExpression(p, LOWEST)}})

parseStatement(p) ==
    CASE curToken(p).Type = "LET" -> parseLetStatement(p)
      [] curToken(p).Type = "RETURN" -> parseReturnStatement(p)
      [] OTHER -> parseExpressionStatement(p)

\* The statement s, when it is not nil, in front of the statements more.
consStatement(s, more) ==
    [nodes |-> (IF s.node.node # "nil" THEN <<s.node>> ELSE <<>>) \o more.nodes, p |-> more.p]

\* The loop of ParseProgram (ends = {EOF}) and of parseBlockStatement
\* (ends = {RBRACE, EOF}); returns [nodes, p].
parseStatements(p, ends) ==
    IF curToken(p).Type \in ends THEN [nodes |-> <<>>, p |-> p]
    ELSE Pick({Pick({consStatement(s, more) :
                       more \in {parseStatements(nextToken(s.p), ends)}}) :
                 s \in {parseStatement(p)}})

parseBlockStatement(p) ==
    Pick({Parsed(BlockStatement(ss.nodes), ss.p) :
            ss \in {parseStatements(nextToken(p), {"}", "EOF"})}})

\* Returns [node, p]: the *ast.Program and the parser with its Errors().
ParseProgram(p) ==
    Pick({Parsed(Program(ss.nodes), ss.p) : ss \in {parseStatements(p, {"EOF"})}})

\* parser.New(lexer.New(chars)).ParseProgram()
Parse(chars) == Pick({ParseProgram(New(toks)) : toks \in {Lex(chars, 1)}})

(***************************************************************************)
(* Parsing a source text, rendering the program and parsing the rendering. *)
(***************************************************************************)
InfixOperators ==
    {<<"+">>, <<"-">>, <<"*">>, <<"/">>, <<"<">>, <<">">>, <<"=", "=">>, <<"!", "=">>}

\* An operator with a space on each side.
Spaced(o) == <<" ">> \o o \o <<" ">>

\* The operand n as it is, under each prefix operator, and called.
OperandForms(n) == {<<n>>, <<"-", n>>, <<"!", n>>, <<n, "(", "z", ")">>}

\* x o1 y o2 z, without parentheses around an operator.
Chains3 ==
    {x \o Spaced(o1) \o y \o Spaced(o2) \o z :
        x \in OperandForms("a"), y \in OperandForms("b"), z \in OperandForms("c"),
        o1 \in InfixOperators, o2 \in InfixOperators}

\* a o1 b o2 c o3 d
Chains4 ==
    {<<"a">> \o Spaced(o1) \o <<"b">> \o Spaced(o2) \o <<"c">> \o Spaced(o3) \o <<"d">> :
        o1 \in InfixOperators, o2 \in InfixOperators, o3 \in InfixOperators}

\* a + b * c + d / e - f
LongChain == <<"a", " ", "+", " ", "b", " ", "*", " ", "c", " ", "+", " ", "d", " ", "/", " ", "e", " ", "-", " ", "f">>

\* (((a + (b * c)) + (d / e)) - f)
LongChainString == 
    <<"(", "(", "(", "a", " ", "+", " ", "(", "b", " ", "*", " ", "c", ")", ")", " ", "+", " ", "(", "d", " ", "/", " ", "e", ")", ")", " ", "-", " ", "f", ")">>

\* -a(z) * !b(z)
PrefixCallChain == <<"-", "a", "(", "z", ")", " ", "*", " ", "!", "b", "(", "z", ")">>

Chains == Chains3 \cup Chains4 \cup {LongChain, PrefixCallChain}

\* Single expressions of the other kinds.
OtherExpressions ==
    {\* "a"
     <<"\"", "a", "\"">>,
     \* "a" + "b"
     <<"\"", "a", "\"", " ", "+", " ", "\"", "b", "\"">>,
     \* fn(x) { x }
     <<"f", "n", "(", "x", ")", " ", "{", " ", "x", " ", "}">>,
     \* fn() { 1 }
     <<"f", "n", "(", ")", " ", "{", " ", "1", " ", "}">>,
     \* fn(x, y) { x + y }
     <<"f", "n", "(", "x", ",", " ", "y", ")", " ", "{", " ", "x", " ", "+", " ", "y", " ", "}">>,
     \* fn(x) { let y = x; y }
     <<"f", "n", "(", "x", ")", " ", "{", " ", "l", "e", "t", " ", "y", " ", "=", " ", "x", ";", " ", "y", " ", "}">>,
     \* fn(x) { return x; }
     <<"f", "n", "(", "x", ")", " ", "{", " ", "r", "e", "t", "u", "r", "n", " ", "x", ";", " ", "}">>,
     \* if (x) { a }
     <<"i", "f", " ", "(", "x", ")", " ", "{", " ", "a", " ", "}">>,
     \* if (x) { a } else { b }
     <<"i", "f", " ", "(", "x", ")", " ", "{", " ", "a", " ", "}", " ", "e", "l", "s", "e", " ", "{", " ", "b", " ", "}">>,
     \* if (x) { a; b }
     <<"i", "f", " ", "(", "x", ")", " ", "{", " ", "a", ";", " ", "b", " ", "}">>,
     \* if (x < y) { let a = 1; a } else { b; c }
     <<"i", "f", " ", "(", "x", " ", "<", " ", "y", ")", " ", "{", " ", "l", "e", "t", " ", "a", " ", "=", " ", "1", ";", " ", "a", " ", "}", " ", "e", "l", "s", "e", " ", "{", " ", "b", ";", " ", "c", " ", "}">>,
     \* if (x) { 1; 2 }
     <<"i", "f", " ", "(", "x", ")", " ", "{", " ", "1", ";", " ", "2", " ", "}">>,
     \* [1, 2 * 3]
     <<"[", "1", ",", " ", "2", " ", "*", " ", "3", "]">>,
     \* [1, 2][0]
     <<"[", "1", ",", " ", "2", "]", "[", "0", "]">>,
     \* a[1 + 1]
     <<"a", "[", "1", " ", "+", " ", "1", "]">>,
     \* f(a, b + c)
     <<"f", "(", "a", ",", " ", "b", " ", "+", " ", "c", ")">>,
     \* f()
     <<"f", "(", ")">>,
     \* 5
     <<"5">>,
     \* true
     <<"t", "r", "u", "e">>,
     \* !false
     <<"!", "f", "a", "l", "s", "e">>,
     \* -5 + 10
     <<"-", "5", " ", "+", " ", "1", "0">>,
     \* (a + b) * c
     <<"(", "a", " ", "+", " ", "b", ")", " ", "*", " ", "c">>,
     \* a * (b + c)
     <<"a", " ", "*", " ", "(", "b", " ", "+", " ", "c", ")">>,
     \* -(a + b)
     <<"-", "(", "a", " ", "+", " ", "b", ")">>,
     \* x
     <<"x">>,
     \* !-a
     <<"!", "-", "a">>}

Sources == Chains \cup OtherExpressions

InitParse ==
    /\ heap = <<NewEnvironment>>
    /\ na = 0
    /\ result = NIL
    /\ halted = FALSE
    /\ nstmts = 0
    /\ log = <<>>
    /\ op = "+"
    /\ left = NIL
    /\ right = NIL
    /\ out = NIL
    /\ phase = "source"
    /\ expr = NoBlock
    /\ input \in Sources
    /\ program = NoBlock
    /\ reparsed = NoBlock

\* What a caller has of a parse: the *ast.Program and the parser's Errors().
Outcome(r) == [ast |-> r.node, errors |-> r.p.errors]

parseInput ==
    /\ phase = "source"
    /\ \E r \in {Parse(input)} : program' = Outcome(r)
    /\ phase' = "parsed"
    /\ UNCHANGED <<input, reparsed>>
    /\ UNCHANGED <<op, left, right, out, expr>>
    /\ UNCHANGED evalVars

parseRendering ==
    /\ phase = "parsed"
    /\ program.errors = <<>>
    /\ \E rendering \in {NodeString(program.ast)} :
          \E r \in {Parse(rendering)} : reparsed' = Outcome(r)
    /\ phase' = "reparsed"
    /\ UNCHANGED <<input, program>>
    /\ UNCHANGED <<op, left, right, out, expr>>
    /\ UNCHANGED evalVars

NextParse == parseInput \/ parseRendering

SpecParse == InitParse /\ [][NextParse]_vars

(***************************************************************************)
(* The grouping of an expression, read off its AST.                        *)
(***************************************************************************)
\* The step of a binary operator on the ladder EQUALS < LESSGREATER < SUM <
\* PRODUCT, counted from 1.
Ladder(o) ==
    CASE o \in {<<"=", "=">>, <<"!", "=">>} -> 1
      [] o \in {<<"<">>, <<">">>} -> 2
      [] o \in {<<"+">>, <<"-">>} -> 3
      [] o \in {<<"*">>, <<"/">>} -> 4

IsInfix(n) == n.node = "InfixExpression"

IsPrefix(n) == n.node = "PrefixExpression"

\* The literals of the tokens the expression n was built from, in order.
RECURSIVE TokenLiterals(_)
RECURSIVE ListLiterals(_, _)
ListLiterals(nodes, i) ==
    IF i > Len(nodes) THEN <<>>
    ELSE IF i = Len(nodes) THEN TokenLiterals(nodes[i])
    ELSE TokenLiterals(nodes[i]) \o <<<<",">>>> \o ListLiterals(nodes, i + 1)

TokenLiterals(n) ==
    CASE n.node = "Identifier" -> <<n.Value>>
      [] IsPrefix(n) -> <<n.Operator>> \o TokenLiterals(n.Right)
      [] IsInfix(n) -> TokenLiterals(n.Left) \o <<n.Operator>> \o TokenLiterals(n.Right)
      [] n.node = "CallExpression" ->
            TokenLiterals(n.Function) \o <<<<"(">>>> \o ListLiterals(n.Arguments, 1) \o <<<<")">>>>

\* In n an operator of a higher step binds before a neighbour of a lower one,
\* operators of the same step associate to the left, a prefix operator binds
\* before every binary operator, and a call before every operator.
RECURSIVE WellGrouped(_)
WellGrouped(n) ==
    CASE IsInfix(n) ->
            /\ IsInfix(n.Left) => Ladder(n.Left.Operator) >= Ladder(n.Operator)
            /\ IsInfix(n.Right) => Ladder(n.Right.Operator) > Ladder(n.Operator)
            /\ WellGrouped(n.Left) /\ WellGrouped(n.Right)
      [] IsPrefix(n) -> ~IsInfix(n.Right) /\ WellGrouped(n.Right)
      [] n.node = "CallExpression" ->
            /\ ~IsInfix(n.Function) /\ ~IsPrefix(n.Function)
            /\ \A i \in DOMAIN n.Arguments : WellGrouped(n.Arguments[i])
      [] OTHER -> TRUE

\* The literals of the tokens of the source text, without the EOF.
InputLiterals ==
    LET toks == Lex(input, 1) IN [i \in 1..(Len(toks) - 1) |-> toks[i].Literal]

(***************************************************************************)
(* C16: a chain of operators without parentheses parses without errors     *)
(* into one expression that has the operands and operators of the source   *)
(* in their order and groups them by the ladder: a higher operator binds   *)
(* before a lower neighbour, equal ones associate to the left, a prefix    *)
(* operator binds before every binary one; and the rendering carries that  *)
(* grouping: parsing it gives the same expression again.                   *)
(***************************************************************************)
C16_ChainsGroupByPrecedence ==
    (phase \in {"parsed", "reparsed"} /\ input \in Chains) =>
        /\ program.errors = <<>>
        /\ Len(program.ast.Statements) = 1
        /\ LET e == program.ast.Statements[1].Expression
           IN /\ TokenLiterals(e) = InputLiterals
              /\ WellGrouped(e)
        /\ phase = "reparsed" => reparsed = program

\* a + b * c + d / e - f renders (((a + (b * c)) + (d / e)) - f).
C16_Witness ==
    /\ phase = "reparsed"
    /\ input = LongChain
    /\ NodeString(program.ast) = LongChainString
    /\ reparsed = program

RECURSIVE IdentsFrom(_)
\* The names of the ident events of the program's frame from event p on.
IdentsFrom(p) ==
    IF p > Len(log) THEN <<>>
    ELSE IF IsEvent(p, "ident") /\ log[p].call = GlobalEnv
    THEN <<log[p].name>> \o IdentsFrom(p + 1)
    ELSE IdentsFrom(p + 1)

IsIdentifier(n) == n.node = "Identifier"

\* The names of the identifiers among the first k of nodes, in order.
NamesOf(nodes, k) ==
    LET ids == SelectSeq(SubSeq(nodes, 1, k), IsIdentifier)
    IN [i \in 1..Len(ids) |-> ids[i].Value]

\* The position of the first of nodes whose value is an ERROR, or 0.
FirstError(nodes) ==
    LET errs == {i \in DOMAIN nodes : isError(ValueOf(nodes[i]))}
    IN IF errs = {} THEN 0 ELSE CHOOSE i \in errs : \A j \in errs : i <= j

Applied == \E p \in Events : IsEvent(p, "apply")

\* What evaluating the list nodes after the identifiers before must have
\* done: the identifiers up to the first ERROR evaluated in order, and when
\* there is an ERROR it is the result.
ListStopsAtFirstError(nodes, before) ==
    LET k == FirstError(nodes)
    IN IF k = 0 THEN IdentsFrom(1) = before \o NamesOf(nodes, Len(nodes))
       ELSE /\ IdentsFrom(1) = before \o NamesOf(nodes, k)
            /\ out = ValueOf(nodes[k])
            /\ ~Applied

(***************************************************************************)
(* C18: when the left operand of an infix expression is an ERROR the right *)
(* one is not evaluated; when the callee of a call is an ERROR no argument *)
(* is; arguments and array elements are evaluated left to right up to the  *)
(* first ERROR, which is the result, and then no function is applied and   *)
(* no array built.                                                         *)
(***************************************************************************)
C18_FirstErrorStopsEvaluation ==
    phase = "evaluated" =>
        /\ (expr \in InfixesOfIdentifiers /\ isError(ValueOf(expr.Left)))
           => (IdentsFrom(1) = <<expr.Left.Value>> /\ out = ValueOf(expr.Left))
        /\ (expr \in CallsOfLists /\ isError(ValueOf(expr.Function)))
           => (IdentsFrom(1) = <<expr.Function.Value>> /\ out = ValueOf(expr.Function)
               /\ ~Applied)
        /\ (expr \in CallsOfLists /\ ~isError(ValueOf(expr.Function)))
           => ListStopsAtFirstError(expr.Arguments, NamesOf(<<expr.Function>>, 1))
        /\ expr \in ArraysOfLists
           => /\ ListStopsAtFirstError(expr.Elements, <<>>)
              /\ FirstError(expr.Elements) # 0 => out.type # "ARRAY"

\* fn(p) { p }(x, v, w): x and v were evaluated, w was not, and the result is
\* the ERROR of v.
C18_Witness ==
    /\ phase = "evaluated"
    /\ expr = Call(Fn(<<"p">>, <<ES(Id("p"))>>), <<Id("x"), Id("v"), Id("w")>>)
    /\ IdentsFrom(1) = <<"x", "v">>
    /\ out = Error("identifier not found: v")
    /\ ~Applied

(***************************************************************************)
(* C19: a let whose value expression, one without a let in it, evaluates   *)
(* to an ERROR yields that ERROR and binds nothing: the frame has the      *)
(* bindings it had before, x its old value and y none.                     *)
(***************************************************************************)
C19_FailedLetBindsNothing ==
    (phase = "evaluated" /\ expr \in LetsOfErrors) =>
        /\ isError(out)
        /\ out = ValueOf(expr.Value)
        /\ heap[GlobalEnv] = FrameOfX
        /\ ~Bound(expr.Name.Value)

\* let x = x + u yielded the ERROR of u and x is still 5.
C19_Witness ==
    /\ phase = "evaluated"
    /\ expr = LetStatement("x", Infix(Id("x"), "+", Id("u")))
    /\ out = Error("identifier not found: u")
    /\ Get(heap, GlobalEnv, "x") = [val |-> Integer(5), ok |-> TRUE]

(***************************************************************************)
(* C20: a let in a block of an if-expression, nested or not, binds in the  *)
(* frame the if-expression is evaluated in: no frame is created, the       *)
(* binding replaces the one the frame had, and the statement after the if  *)
(* reads it.  In a function body the frame is the one the call created,    *)
(* and the frame of the caller keeps its bindings.                         *)
(***************************************************************************)
\* The value the identifier name has in frame env of heap h.
Lookup(h, env, name) ==
    IF Get(h, env, name).ok THEN Get(h, env, name).val
    ELSE Error("identifier not found: " \o name)

C20_BlocksBindInTheEnclosingFrame ==
    /\ (phase = "evaluated" /\ expr \in NestedLets) =>
          LET c == expr.Condition.Bool
              inner == expr.Consequence.Statements[1].Expression
              d == inner.Condition.Bool
              n == inner.Consequence.Statements[1].Name.Value
              m == inner.Alternative.Statements[1].Name.Value
              bound == IF c /\ ~d THEN m ELSE n
              val == IF ~c THEN Integer(7) ELSE IF d THEN Integer(3) ELSE Integer(4)
              read == IF c THEN n ELSE m
              expected == Set(<<FrameOfX>>, GlobalEnv, bound, val)
          IN /\ heap = expected
             /\ out = Lookup(expected, GlobalEnv, read)
    /\ (phase = "evaluated" /\ expr \in LetsInCalls) =>
          LET n == expr.Function.Body.Statements[2].Expression.Value
          IN /\ heap[GlobalEnv] = FrameOfX
             /\ out = Integer(3)
             /\ \A p \in Events : IsEvent(p, "let") =>
                   \E q \in Events : q < p /\ IsEvent(q, "apply") /\ log[q].call = log[p].call
             /\ \A p \in Events : IsEvent(p, "apply") =>
                   heap[log[p].call].store = [name \in {n} |-> Integer(3)]

\* if (true) { if (true) { let x = 3 } else { let y = 4 } x } else { ... }:
\* x was 5 and is 3 in the one frame there is, and the x after the inner if
\* read 3.
C20_Witness ==
    /\ phase = "evaluated"
    /\ expr = NestedLet(TRUE, TRUE, "x", "y")
    /\ Len(heap) = 1
    /\ heap[GlobalEnv].store = [name \in {"x"} |-> Integer(3)]
    /\ out = Integer(3)

(***************************************************************************)
(* Calls of a function that a let bound to a name nothing bound before.    *)
(***************************************************************************)
\* Let event p bound a function to a name that no frame in sight bound, and
\* call event q applied that function afterwards.
CallOfLetBound(p, q) ==
    /\ IsEvent(p, "let") /\ IsEvent(q, "apply") /\ p < q
    /\ log[p].fresh
    /\ IsFunction(log[p].val)
    /\ log[q].fn = log[p].val

\* Event r evaluated the identifier name in the body of call q, and the new
\* frame of the call did not bind name then: name is neither a parameter
\* that got an argument nor bound by a let of the body before r.
FreeInBody(q, r, name) ==
    /\ IsEvent(r, "ident") /\ q < r
    /\ log[r].call = log[q].call
    /\ log[r].name = name
    /\ name \notin DOMAIN log[q].frame
    /\ \A s \in Events :
          (s < r /\ IsEvent(s, "let") /\ log[s].call = log[q].call) => log[s].name # name

\* The identifier of event r was not found, and call q yielded that ERROR.
NotFoundInCall(q, r) ==
    /\ log[r].val = Error("identifier not found: " \o log[r].name)
    /\ \A s \in Events :
          (IsEvent(s, "applied") /\ log[s].call = log[q].call) => log[s].val = log[r].val

(***************************************************************************)
(* C21 as claimed: when let NAME = F bound a function F to a name not      *)
(* bound before, then in every later call of F every evaluation of the     *)
(* identifier NAME as a free name of the body yields the ERROR             *)
(* "identifier not found: NAME", and the call yields that ERROR.           *)
(* Fails: let len = fn() { len }; len() yields the BUILTIN len, which      *)
(* evalIdentifier finds in the builtins table after the environment.       *)
(***************************************************************************)
C21_LetBoundNameIsNotFound ==
    \A p, q, r \in Events :
        (CallOfLetBound(p, q) /\ FreeInBody(q, r, log[p].name)) => NotFoundInCall(q, r)

(***************************************************************************)
(* C21 amended: the same for every NAME that is not the name of a builtin  *)
(* function; the name of a builtin evaluates to the builtin in the body,   *)
(* never to the function the let bound.                                    *)
(***************************************************************************)
C21_LetBoundNameIsNotTheFunction ==
    \A p, q, r \in Events :
        (CallOfLetBound(p, q) /\ FreeInBody(q, r, log[p].name))
        => /\ log[p].name \notin builtins => NotFoundInCall(q, r)
           /\ log[p].name \in builtins => log[r].val = Builtin(log[p].name)

\* let f = fn(n) { if (n) { f(false) } else { 1 } }; f(true): the body
\* reached f(false), f was not found, and the call yielded the ERROR.
C21_Witness ==
    /\ phase = "evaluated"
    /\ out = Error("identifier not found: f")
    /\ \E p, q, r \in Events :
          /\ CallOfLetBound(p, q) /\ FreeInBody(q, r, "f")
          /\ log[p].call = GlobalEnv
          /\ log[q].args = <<True>>
          /\ \E s \in Events : s < r /\ IsEvent(s, "branch") /\ log[s].call = log[q].call

(***************************************************************************)
(* The function values of a state, and the frames a function sees.         *)
(***************************************************************************)
\* The value the evaluation yielded and every value bound in a frame.
ValuesInSight ==
    {out} \cup UNION {{heap[i].store[name] : name \in DOMAIN heap[i].store} : i \in DOMAIN heap}

FunctionsInSight == {v \in ValuesInSight : IsFunction(v)}

ParameterNames(fn) == {fn.Parameters[i].Value : i \in DOMAIN fn.Parameters}

\* The frames outer to env in heap h.
RECURSIVE OuterFrames(_, _)
OuterFrames(h, env) ==
    IF h[env].outer = 0 THEN {} ELSE {h[env].outer} \cup OuterFrames(h, h[env].outer)

\* From heap h to heap h2 the captured frame of fn lost the names of fn's
\* parameters and nothing else, and no frame outer to it changed.
CapturedLostParameters(h, h2, fn) ==
    /\ h2[fn.Env].store =
          [name \in DOMAIN h[fn.Env].store \ ParameterNames(fn) |-> h[fn.Env].store[name]]
    /\ h2[fn.Env].outer = h[fn.Env].outer
    /\ \A i \in OuterFrames(h, fn.Env) : h2[i] = h[i]

(***************************************************************************)
(* C22: applying a function removes the name of each of its parameters     *)
(* from the local frame of its captured environment, whether the parameter *)
(* got an argument or not, and binds the parameters that got one in the    *)
(* new frame only; every other binding of the captured frame and every     *)
(* frame outer to it is the same after extendFunctionEnv and after the     *)
(* whole call.                                                             *)
(***************************************************************************)
C22_CallDeletesParametersFromCaptured ==
    \A fn \in FunctionsInSight : \A args \in ArgLists :
        LET ext == extendFunctionEnv(fn, args, heap)
            applied == applyFunction(fn, args, Fresh(heap, na))
        IN /\ CapturedLostParameters(heap, ext.heap, fn)
           /\ \A i \in DOMAIN heap : i # fn.Env => ext.heap[i] = heap[i]
           /\ ext.heap[ext.env].outer = fn.Env
           /\ DOMAIN ext.heap[ext.env].store =
                 {fn.Parameters[i].Value : i \in 1..Min(Len(fn.Parameters), Len(args))}
           /\ CapturedLostParameters(heap, applied.st.heap, fn)

\* fn(y, z) { fn(x, y) { y } }(1, 2) yielded a function whose captured frame
\* binds y and z, over a frame that binds x; calling it with no argument
\* leaves z in the captured frame and x in the outer one, and the body does
\* not find y.
C22_Witness ==
    /\ phase = "evaluated"
    /\ IsFunction(out)
    /\ ParameterNames(out) = {"x", "y"}
    /\ DOMAIN heap[out.Env].store = {"y", "z"}
    /\ LET applied == applyFunction(out, <<>>, Fresh(heap, na))
           h2 == applied.st.heap
       IN /\ h2[out.Env].store = [name \in {"z"} |-> Integer(2)]
          /\ \E i \in OuterFrames(h2, out.Env) :
                "x" \in DOMAIN h2[i].store /\ h2[i].store["x"] = Integer(5)
          /\ applied.v = Error("identifier not found: y")

(***************************************************************************)
(* C23: calling a function does not add, remove or change a binding that   *)
(* the frame of the call expression sees: what env.Get yields there, for   *)
(* every name, is the same after applyFunction as before it, whatever the  *)
(* body binds and whatever the parameters are called.                      *)
(***************************************************************************)
C23_CallKeepsCallerBindings ==
    \A p \in Events : IsEvent(p, "call") => log[p].after = log[p].before

\* let f = fn(x) { let y = x; let z = 3; y }; f(1); x in the program's frame:
\* the body bound y to 1 in the frame of the call, and afterwards the
\* program reads x as 5 and its frame binds x and f only.
C23_Witness ==
    /\ phase = "evaluated"
    /\ expr = If(Boolean(TRUE), CallThenRead(<<"x">>, "x"))
    /\ out = Integer(5)
    /\ DOMAIN heap[GlobalEnv].store = {"x", "f"}
    /\ \E p, q, r \in Events :
          /\ IsEvent(p, "apply") /\ IsEvent(q, "let") /\ IsEvent(r, "call")
          /\ p < q /\ q < r
          /\ log[p].frame = [name \in {"x"} |-> Integer(1)]
          /\ log[q].call = log[p].call /\ log[q].name = "y" /\ log[q].val = Integer(1)
          /\ log[r].call = GlobalEnv
          /\ log[r].fn = log[p].fn
          /\ "x" \in DOMAIN log[r].after /\ log[r].after["x"] = Integer(5)
          /\ "y" \notin DOMAIN log[r].after

====
